---------------------------- MODULE Spec2Model ----------------------------
(***************************************************************************)
(* State-machine model of the per-frame animation core of the portfolio    *)
(* script (latest variant, src/unnamed/part_000): the Particle Field       *)
(* (Particles), the Pointer Follower (Cursor) and the Shared Frame         *)
(* Scheduler (startSharedLoop), driven by the browser's events.            *)
(*                                                                         *)
(* Numbers.  JavaScript numbers are modelled in fixed point: the integer n *)
(* stands for n / Scale pixels (or pixels per frame).  Products and        *)
(* quotients are truncated toward zero to the next representable value.    *)
(* NaN is a distinguished value that every arithmetic operator propagates  *)
(* and every comparison answers FALSE on, as IEEE 754 prescribes.          *)
(*                                                                         *)
(* Frame callbacks.  requestAnimationFrame handles are opaque to the       *)
(* program: the only thing it does with one is to store it in              *)
(* Particles.raf and to pass it to cancelAnimationFrame.  A fresh handle   *)
(* is therefore modelled as the least positive integer that is neither     *)
(* pending nor stored in Particles.raf.                                    *)
(***************************************************************************)
EXTENDS Integers, Sequences, FiniteSets

VARIABLES
  \* ---- environment (browser) ----
  touch,          \* isTouchDevice()
  reducedMotion,  \* prefersReducedMotion()
  canvasPresent,  \* document.getElementById('particles') is an element
  ctxAvailable,   \* canvas.getContext('2d') is not null
  elPresent,      \* document.querySelector('.cursor') is an element
  glowPresent,    \* document.querySelector('.cursor-glow') is an element
  hidden,         \* document.hidden
  win,            \* <<window.innerWidth, window.innerHeight>>
  now,            \* wall clock, in ms
  hot,            \* the viewport points that lie over an interactive element
  pointerOut,     \* the pointer has left the page since its last sample (history)
  \* ---- page ----
  loaded,         \* DOMContentLoaded has been dispatched
  lastOp,         \* name of the last operation performed (history)
  prevOp,         \* name of the operation performed before it (history)
  startup,        \* the calls the DOMContentLoaded listener made, in order (history)
  \* ---- Particles ----
  canvas,         \* Particles.canvas # null
  ctx,            \* Particles.ctx # null
  plisten,        \* Particles.init registered its resize/mousemove/visibilitychange listeners
  particles,      \* Particles.particles: sequence of [x, y, vx, vy]
  pmouse,         \* Particles.mouse
  raf,            \* Particles.raf (0 models null)
  running,        \* Particles.running
  cw, ch,         \* canvas.width, canvas.height as Particles.resize() last set them (0 before)
  pending,        \* handles of the particle-loop frame callbacks the browser holds
  steps,          \* number of particle steps performed so far (history)
  stepped,        \* the last operation on the Particle Field performed a step (history)
  \* ---- Cursor ----
  el,             \* Cursor.el # null
  glow,           \* Cursor.glow # null
  cmouse,         \* Cursor.mouse
  pos,            \* Cursor.pos
  glowPos,        \* Cursor.glowPos
  hovering,       \* Cursor.hovering
  hasMoved,       \* Cursor.hasMoved
  scrolling,      \* Cursor.scrolling
  scrollTimer,    \* Cursor.scrollTimer (0 initially; a timer is named by its deadline)
  timers,         \* deadlines of the timeouts the browser holds
  lastScrollAt,   \* time of the last scroll event, -1 if none (history)
  \* ---- shared frame loop ----
  rafRunning,     \* rafRunning
  sharedPending,  \* number of pending tick callbacks of the shared loop
  sharedStarts,   \* number of startSharedLoop() calls so far (history)
  frames,         \* number of display frames the shared loop has seen (history)
  frameUpdates,   \* number of Cursor.update() calls made in the last display frame (history)
  \* ---- page content and scroll position (browser) ----
  headerPresent,  \* document.querySelector('.header') is an element
  togglePresent,  \* document.querySelector('.mobile-menu-toggle') is an element
  overlayPresent, \* document.querySelector('.mobile-menu-overlay') is an element
  parallaxPresent, \* document.querySelectorAll('[data-parallax]') is not empty
  scrollY,        \* window.scrollY, in px, as far as a listener of the page reads it
  \* ---- Header ----
  headerEl,       \* Header.el # null
  lastScroll,     \* Header.lastScroll
  scrolled,       \* the header carries the class 'scrolled'
  headerHidden,   \* the header carries the class 'header-hidden'
  \* ---- MobileMenu / SmoothScroll ----
  toggle,         \* MobileMenu.toggle # null
  overlay,        \* MobileMenu.overlay # null
  menuListening,  \* MobileMenu.init registered its click and keydown listeners
  toggleActive,   \* the toggle carries the class 'active'
  overlayActive,  \* the overlay carries the class 'active'
  menuOpen,       \* document.body carries the class 'menu-open'
  closedBy,       \* where the last click or key press closed the open menu from (history)
  \* ---- Parallax ----
  elements,       \* Parallax.elements is not empty
  parallaxListening, \* Parallax.init registered its scroll listener
  ticking,        \* Parallax.ticking
  parallaxPending, \* number of pending Parallax.update frame callbacks
  \* ---- Counters ----
  counterEls,     \* document.querySelectorAll('.counter[data-target]'): sequence of
                  \* [target, decimals], target in tenths
  observer,       \* Counters.observer # null
  observed,       \* the counters the observer observes (indices into counterEls)
  animations,     \* per counter: number of Counters.animate() calls so far (history)
  cstart,         \* per counter: `start` of its animate() call
  cpending,       \* per counter: number of pending frame callbacks of its tick
  ctext,          \* per counter: the number its textContent shows, in tenths (-1: not written)
  \* ---- PageTransition ----
  fontsApi,       \* document.fonts && document.fonts.ready
  homepage,       \* document.body carries the class 'homepage'
  revealVia,      \* what init attached reveal to: "fonts", "load", or "none" before init
  revealFired,    \* the font-ready promise has resolved / the load event has fired
  revealTimer,    \* deadline of setTimeout(reveal, 1200), -1 when none is held
  revealPending,  \* number of pending frame callbacks requested by reveal()
  pageLoaded,     \* document.body carries the class 'page-loaded'
  ready,          \* document.body carries the class 'ready'
  reveals,        \* number of reveal frame callbacks that have run (history)
  transformNone,  \* document.body.style.transform is 'none'
  clearListening, \* the transitionend handler of init is registered
  clearTimer,     \* deadline of setTimeout(clearTransform, 1800), -1 when none is held
  \* ---- functions applied to drawn inputs ----
  probe           \* the input drawn and the results of the functions applied to it

envVars    == <<touch, reducedMotion, canvasPresent, ctxAvailable, elPresent,
                glowPresent, hidden, win, now>>
pageVars   == <<loaded, lastOp, prevOp, startup>>
pointerVars == <<hot, pointerOut>>
fieldVars  == <<canvas, ctx, plisten, particles, pmouse, raf, running, cw, ch,
                pending, steps, stepped>>
cursorVars == <<el, glow, cmouse, pos, glowPos, hovering, hasMoved, scrolling,
                scrollTimer, timers, lastScrollAt>>
sharedVars == <<rafRunning, sharedPending, sharedStarts, frames, frameUpdates>>
contentVars == <<headerPresent, togglePresent, overlayPresent, parallaxPresent>>
headerVars == <<headerEl, lastScroll, scrolled, headerHidden>>
menuVars   == <<toggle, overlay, menuListening, toggleActive, overlayActive, menuOpen,
                closedBy>>
parallaxVars == <<elements, parallaxListening, ticking, parallaxPending>>
counterVars == <<counterEls, observer, observed, animations, cstart, cpending, ctext>>
revealVars == <<fontsApi, homepage, revealVia, revealFired, revealTimer, revealPending,
                pageLoaded, ready, reveals, transformNone, clearListening, clearTimer>>
chromeVars == <<contentVars, scrollY, headerVars, menuVars, parallaxVars, counterVars,
                revealVars>>
vars       == <<envVars, pointerVars, pageVars, fieldVars, cursorVars, sharedVars,
                chromeVars, probe>>

-----------------------------------------------------------------------------
(* Bounds of the model *)

MaxSteps == 3         \* particle steps explored
MaxFrames == 2        \* display frames of the shared loop explored
MaxSharedStarts == 2  \* startSharedLoop() calls explored
MaxTicksOfTime == 4   \* clock advances explored
MaxWaits == 8         \* longer stretches of time explored
MaxProbeSteps == 40   \* steps applied to one drawn particle list

-----------------------------------------------------------------------------
(* Fixed-point numbers *)

DriftPerTenThousand == 80
\* One model unit is the half-range of the base drift, 0.008 / 2 = 1/250.
Scale == 20000 \div DriftPerTenThousand

NaN == -1000000000

IsNaN(a) == a = NaN

Abs(a) == IF a < 0 THEN -a ELSE a

\* n / d truncated toward zero (d > 0)
Trunc(n, d) == IF n >= 0 THEN n \div d ELSE -((-n) \div d)

FAdd(a, b) == IF IsNaN(a) \/ IsNaN(b) THEN NaN ELSE a + b
FSub(a, b) == IF IsNaN(a) \/ IsNaN(b) THEN NaN ELSE a - b
\* a * (n / d) for a constant n / d
FScale(a, n, d) == IF IsNaN(a) THEN NaN ELSE Trunc(a * n, d)
\* a * b of two fixed-point values
FMul(a, b) == IF IsNaN(a) \/ IsNaN(b) THEN NaN ELSE Trunc(a * b, Scale)
\* a / b of two fixed-point values; 0 / 0 is NaN
FDiv(a, b) ==
  IF IsNaN(a) \/ IsNaN(b) THEN NaN
  ELSE IF b = 0 THEN NaN
  ELSE IF b > 0 THEN Trunc(a * Scale, b) ELSE Trunc(-(a * Scale), -b)
FLt(a, b) == ~IsNaN(a) /\ ~IsNaN(b) /\ a < b
FGt(a, b) == ~IsNaN(a) /\ ~IsNaN(b) /\ a > b

RECURSIVE SqrtSearch(_, _, _)
SqrtSearch(n, lo, hi) ==
  IF lo >= hi THEN lo
  ELSE LET mid == (lo + hi + 1) \div 2
       IN IF mid * mid <= n THEN SqrtSearch(n, mid, hi)
                            ELSE SqrtSearch(n, lo, mid - 1)
\* Math.sqrt on a squared fixed-point distance (n = dx*dx + dy*dy in units^2)
Sqrt(n) == SqrtSearch(n, 0, 46340)

Min(a, b) == IF a < b THEN a ELSE b

-----------------------------------------------------------------------------
(* Particle physics: one pass of the per-particle loop of Particles.loop *)

RepulsionRadius == 120     \* (120 - dist) / 120
RepulsionRadiusSq == 14400 \* distSq < 14400
ForcePerCent == 12         \* * 0.12
DampingPerMille == 985     \* *= 0.985

\* distSq < 14400, for finite dx, dy.  |dx| and |dy| are compared first so that
\* the squares stay inside the integers the checker computes with.
WithinRadius(dx, dy) ==
  /\ ~IsNaN(dx) /\ ~IsNaN(dy)
  /\ Abs(dx) < RepulsionRadius * Scale
  /\ Abs(dy) < RepulsionRadius * Scale
  /\ dx * dx + dy * dy < RepulsionRadiusSq * Scale * Scale

\* A repulsion block with the sign of the increment reversed
Attract(p, m) ==
  IF touch THEN <<p.vx, p.vy>>
  ELSE LET dx == FSub(p.x, m[1])
           dy == FSub(p.y, m[2])
       IN IF WithinRadius(dx, dy)
          THEN LET dist  == Sqrt(dx * dx + dy * dy)
                   force == FDiv(RepulsionRadius * Scale - dist,
                                 RepulsionRadius * Scale)
               IN <<FSub(p.vx, FScale(FMul(FDiv(dx, dist), force), ForcePerCent, 100)),
                    FSub(p.vy, FScale(FMul(FDiv(dy, dist), force), ForcePerCent, 100))>>
          ELSE <<p.vx, p.vy>>

\* Mouse repulsion: the velocity <<vx, vy>> after the repulsion block
Repel(p, m) ==
  IF touch THEN <<p.vx, p.vy>>
  ELSE LET dx == FSub(p.x, m[1])
           dy == FSub(p.y, m[2])
       IN IF WithinRadius(dx, dy)
          THEN LET dist  == Sqrt(dx * dx + dy * dy)
                   force == FDiv(RepulsionRadius * Scale - dist,
                                 RepulsionRadius * Scale)
               IN <<FAdd(p.vx, FScale(FMul(FDiv(dx, dist), force), ForcePerCent, 100)),
                    FAdd(p.vy, FScale(FMul(FDiv(dy, dist), force), ForcePerCent, 100))>>
          ELSE <<p.vx, p.vy>>

\* no damping
Undamped(v) == v

\* p.vx *= 0.985
Damp(v) == FScale(v, DampingPerMille, 1000)

\* a wrap that also moves a coordinate of exactly 0
WrapAtZero(c, dim) ==
  LET c1 == IF FLt(c, 1) THEN dim ELSE c
  IN IF FGt(c1, dim) THEN 0 ELSE c1

\* if (c < 0) c = dim; if (c > dim) c = 0;
Wrap(c, dim) ==
  LET c1 == IF FLt(c, 0) THEN dim ELSE c
  IN IF FGt(c1, dim) THEN 0 ELSE c1

\* The body of the per-particle loop for particle p, with pointer m, canvas
\* w x h, and d = <<dx, dy>> the drift drawn in this pass.
StepOne(p, m, w, h, d) ==
  LET v   == Repel(p, m)
      vx1 == FAdd(Damp(v[1]), d[1])
      vy1 == FAdd(Damp(v[2]), d[2])
  IN [x  |-> Wrap(FAdd(p.x, vx1), w),
      y  |-> Wrap(FAdd(p.y, vy1), h),
      vx |-> vx1,
      vy |-> vy1]

ConnectionLimit == 80  \* len < 80

\* The connection pass of loop() over len particles: the index pairs <<i, j>>
\* whose distance it evaluates (indices from 1)
ConnectionPass(len) ==
  IF ~touch /\ len < ConnectionLimit
  THEN {<<i, j>> \in (1..len) \X (1..len) : j >= i + 1}
  ELSE {}

\* for (let i = 0; i < len; i++) { ... }: particle i only reads itself and the pointer
StepAll(ps, m, w, h, dr) ==
  [i \in 1..Len(ps) |-> StepOne(ps[i], m, w, h, dr[i])]

ConnectionDistance == 100  \* connectionDistance: 100

\* distSq < cdSq, for dx, dy the differences of two particles' coordinates
WithinConnection(dx, dy) ==
  /\ ~IsNaN(dx) /\ ~IsNaN(dy)
  /\ Abs(dx) < ConnectionDistance * Scale
  /\ Abs(dy) < ConnectionDistance * Scale
  /\ dx * dx + dy * dy < ConnectionDistance * ConnectionDistance * Scale * Scale

\* The pairs the connection pass draws a line for, on the positions in ps
Connections(ps) ==
  {c \in ConnectionPass(Len(ps)) :
     WithinConnection(FSub(ps[c[1]].x, ps[c[2]].x), FSub(ps[c[1]].y, ps[c[2]].y))}

\* a connection pass that reads the positions the tick began with
ConnectionsBeforeUpdate(before, after) == Connections(before)

\* The lines one tick draws: the connection loop follows the per-particle loop
\* and reads the particle objects that loop has just written
DrawnConnections(before, after) == Connections(after)

-----------------------------------------------------------------------------
(* Random draws *)

\* (Math.random() - 0.5) * 0.008, to the nearest model unit
DriftUnits == {-1, 0, 1}
DriftDraws == {<<d, d>> : d \in DriftUnits}

\* (Math.random() - 0.5) * 0.25 lies in [-0.125, 0.125)
SpawnSpeed == Trunc(125 * Scale, 1000)

\* Particles spawn() may create on a w x h canvas: x in [0, w), y in [0, h)
SpawnDraws(w, h) ==
  { [x |-> 0,     y |-> 0,     vx |-> 0,           vy |-> 0],
    [x |-> 0,     y |-> 0,     vx |-> -SpawnSpeed, vy |-> -SpawnSpeed],
    [x |-> w - 1, y |-> h - 1, vx |-> SpawnSpeed,  vy |-> SpawnSpeed] }

\* spawn(count): the particle lists it may produce
Spawn(count, w, h) == [1..count -> SpawnDraws(w, h)]

CountCap == 70
AreaDivisor == 15000
TouchCountCap == 30
TouchAreaDivisor == 30000

\* Adaptive particle count of Particles.init
Count(area) ==
  IF touch THEN Min(TouchCountCap, area \div TouchAreaDivisor)
           ELSE Min(CountCap, area \div AreaDivisor)

-----------------------------------------------------------------------------
(* Frame-callback handles *)

\* requestAnimationFrame's return value when `pend` are pending
Fresh(pend) ==
  CHOOSE n \in 1..(Cardinality(pend) + 2) : n \notin pend \cup {raf}

-----------------------------------------------------------------------------
(* Particles: start / stop / loop, as relations on the Particle Field's state. *)
(* The parameters carry the values this.particles, canvas.width/height,       *)
(* this.ctx and the pending callbacks have when the method is entered, which  *)
(* differ from the unprimed variables when the caller has changed them.       *)

\* a loop() whose body runs twice before the next callback is requested
LoopSteppingTwice(run, ps, w, h, cx, pend) ==
  IF ~run \/ ~cx
  THEN /\ particles' = ps
       /\ pending' = pend
       /\ stepped' = FALSE
       /\ UNCHANGED <<raf, steps>>
  ELSE \E dr \in [1..Len(ps) -> DriftDraws] :
         /\ particles' = StepAll(StepAll(ps, pmouse, w, h, dr), pmouse, w, h, dr)
         /\ raf' = Fresh(pend)
         /\ pending' = pend \cup {Fresh(pend)}
         /\ steps' = steps + 2
         /\ stepped' = TRUE

\* loop(), entered with this.running = run
ParticlesLoop(run, ps, w, h, cx, pend) ==
  IF ~run \/ ~cx
  THEN /\ particles' = ps
       /\ pending' = pend
       /\ stepped' = FALSE
       /\ UNCHANGED <<raf, steps>>
  ELSE \E dr \in [1..Len(ps) -> DriftDraws] :
         /\ particles' = StepAll(ps, pmouse, w, h, dr)
         /\ raf' = Fresh(pend)
         /\ pending' = pend \cup {Fresh(pend)}
         /\ steps' = steps + 1
         /\ stepped' = TRUE

\* start() without its `if (this.running) return`
StartWithoutGuard(ps, w, h, cx) ==
  /\ running' = TRUE
  /\ ParticlesLoop(TRUE, ps, w, h, cx, pending)

\* start() that spawns anew before looping
StartRespawning(ps, w, h, cx) ==
  IF running
  THEN /\ particles' = ps
       /\ stepped' = FALSE
       /\ UNCHANGED <<running, raf, pending, steps>>
  ELSE /\ running' = TRUE
       /\ \E fresh \in Spawn(Len(ps), w, h) :
            ParticlesLoop(TRUE, fresh, w, h, cx, pending)

\* start()
ParticlesStart(ps, w, h, cx) ==
  IF running
  THEN /\ particles' = ps
       /\ stepped' = FALSE
       /\ UNCHANGED <<running, raf, pending, steps>>
  ELSE /\ running' = TRUE
       /\ ParticlesLoop(TRUE, ps, w, h, cx, pending)

\* stop() without its cancelAnimationFrame
StopWithoutCancel ==
  /\ running' = FALSE
  /\ stepped' = FALSE
  /\ UNCHANGED <<particles, raf, pending, steps>>

\* stop()
ParticlesStop ==
  /\ running' = FALSE
  /\ pending' = IF raf # 0 THEN pending \ {raf} ELSE pending
  /\ stepped' = FALSE
  /\ UNCHANGED <<particles, raf, steps>>

\* Particles.init() without its prefersReducedMotion() return
InitIgnoringReducedMotion ==
  /\ canvas' = canvasPresent
  /\ UNCHANGED pmouse
  /\ IF ~canvasPresent
     THEN UNCHANGED <<ctx, plisten, particles, raf, running, cw, ch, pending, steps,
                      stepped>>
     ELSE /\ ctx' = ctxAvailable
          /\ cw' = win[1] * Scale
          /\ ch' = win[2] * Scale
          /\ plisten' = TRUE
          /\ \E ps \in Spawn(Count(win[1] * win[2]), win[1] * Scale, win[2] * Scale) :
               ParticlesStart(ps, win[1] * Scale, win[2] * Scale, ctxAvailable)

\* Particles.init()
ParticlesInit ==
  /\ canvas' = canvasPresent
  /\ UNCHANGED pmouse
  /\ IF ~canvasPresent \/ reducedMotion
     THEN UNCHANGED <<ctx, plisten, particles, raf, running, cw, ch, pending, steps,
                      stepped>>
     ELSE /\ ctx' = ctxAvailable
          /\ cw' = win[1] * Scale
          /\ ch' = win[2] * Scale
          /\ plisten' = TRUE
          /\ \E ps \in Spawn(Count(win[1] * win[2]), win[1] * Scale, win[2] * Scale) :
               ParticlesStart(ps, win[1] * Scale, win[2] * Scale, ctxAvailable)

-----------------------------------------------------------------------------
(* Cursor *)

LerpDotPerCent == 18   \* lerp(this.pos.x, this.mouse.x, 0.18)
LerpGlowPerCent == 8   \* lerp(this.glowPos.x, this.mouse.x, 0.08)
ScrollDebounce == 100  \* setTimeout(..., 100)
CursorStart == 100     \* mouse, pos, glowPos start at (-100, -100)
FieldMouseStart == 9999 \* Particles.mouse starts at (-9999, -9999)

\* an interpolation that goes past its target
lerpPastTarget(a, b, pc) == FAdd(a, FScale(FSub(b, a), pc + 100, 100))

\* lerp(a, b, t) with t = pc / 100
lerp(a, b, pc) == FAdd(a, FScale(FSub(b, a), pc, 100))

\* Cursor.update() without its guard, the render offset folded into the target
UpdateUnguardedOffset(c) ==
  [pos     |-> <<lerp(c.pos[1], cmouse[1] - 4 * Scale, LerpDotPerCent),
                 lerp(c.pos[2], cmouse[2] - 4 * Scale, LerpDotPerCent)>>,
   glowPos |-> c.glowPos]

\* Cursor.update() that lerps toward the hover-shifted point while hovering
UpdateHoverShifted(c) ==
  IF ~el \/ ~hasMoved THEN c
  ELSE LET shift == IF hovering THEN 20 * Scale ELSE 0
       IN [pos     |-> <<lerp(c.pos[1], cmouse[1] - shift, LerpDotPerCent),
                         lerp(c.pos[2], cmouse[2] - shift, LerpDotPerCent)>>,
           glowPos |-> IF glow
                       THEN <<lerp(c.glowPos[1], cmouse[1], LerpGlowPerCent),
                              lerp(c.glowPos[2], cmouse[2], LerpGlowPerCent)>>
                       ELSE c.glowPos]

\* Cursor.update(), on c = [pos, glowPos]
CursorUpdate(c) ==
  IF ~el \/ ~hasMoved THEN c
  ELSE [pos     |-> <<lerp(c.pos[1], cmouse[1], LerpDotPerCent),
                      lerp(c.pos[2], cmouse[2], LerpDotPerCent)>>,
        glowPos |-> IF glow
                    THEN <<lerp(c.glowPos[1], cmouse[1], LerpGlowPerCent),
                           lerp(c.glowPos[2], cmouse[2], LerpGlowPerCent)>>
                    ELSE c.glowPos]

\* k successive calls of Cursor.update()
RECURSIVE UpdateTimes(_, _)
UpdateTimes(c, k) == IF k = 0 THEN c ELSE UpdateTimes(CursorUpdate(c), k - 1)

\* Cursor.init() (the listeners are registered iff this.el was found)
CursorInit ==
  /\ IF touch THEN UNCHANGED <<el, glow>>
              ELSE el' = elPresent /\ glow' = glowPresent
  /\ UNCHANGED <<cmouse, pos, glowPos, hovering, hasMoved, scrolling,
                 scrollTimer, timers, lastScrollAt>>

\* mousemove listener that snaps on every sample
MouseMoveAlwaysSnap(s) ==
  /\ cmouse' = s
  /\ hasMoved' = TRUE /\ pos' = s /\ glowPos' = s

\* Cursor's mousemove listener, for the sample s
CursorMouseMove(s) ==
  /\ cmouse' = s
  /\ IF ~hasMoved
     THEN hasMoved' = TRUE /\ pos' = s /\ glowPos' = s
     ELSE UNCHANGED <<hasMoved, pos, glowPos>>

\* scroll listener without its clearTimeout
ScrollWithoutClear ==
  /\ scrolling' = TRUE
  /\ scrollTimer' = now + ScrollDebounce
  /\ timers' = timers \cup {now + ScrollDebounce}

\* Cursor's scroll listener
CursorScroll ==
  /\ scrolling' = TRUE
  /\ scrollTimer' = now + ScrollDebounce
  /\ timers' = (timers \ {scrollTimer}) \cup {now + ScrollDebounce}

\* The same test made at the lagged dot position instead of the raw sample
ElementHitAtLagged(pt) == \E h \in hot : pos = <<h[1] * Scale, h[2] * Scale>>

\* document.elementFromPoint(pt.x, pt.y) exists and has an interactive
\* ancestor-or-self: hit && hit.closest(interactiveSelector)
ElementHit(pt) == \E h \in hot : pt = <<h[1] * Scale, h[2] * Scale>>

\* The timeout callback of the scroll listener; hit: the element under the
\* pointer is inside an interactive element
CursorScrollEnd(hit) ==
  /\ scrolling' = FALSE
  /\ hovering' = hit

\* Cursor's mouseover listener; interactive: e.target.closest(interactiveSelector)
CursorMouseOver(interactive) ==
  hovering' = IF ~scrolling /\ interactive THEN TRUE ELSE hovering

\* Cursor's mouseout listener
CursorMouseOut(interactive) ==
  hovering' = IF ~scrolling /\ interactive THEN FALSE ELSE hovering

-----------------------------------------------------------------------------
(* Shared frame loop *)

\* startSharedLoop() without its `if (rafRunning) return`
StartSharedWithoutGuard ==
  /\ sharedStarts' = sharedStarts + 1
  /\ rafRunning' = TRUE
  /\ sharedPending' = sharedPending + 1

\* startSharedLoop()
startSharedLoop ==
  /\ sharedStarts' = sharedStarts + 1
  /\ IF rafRunning
     THEN UNCHANGED <<rafRunning, sharedPending>>
     ELSE /\ rafRunning' = TRUE
          /\ sharedPending' = sharedPending + 1

-----------------------------------------------------------------------------
(* Header *)

scrollThreshold == 80  \* scrollThreshold: 80
delta == 5             \* delta: 5

\* an onScroll() that hides on every downward move, above the threshold or not
OnScrollHidingAnywhere(y) ==
  /\ scrolled' = (y > scrollThreshold)
  /\ IF Abs(y - lastScroll) < delta
     THEN UNCHANGED <<headerHidden, lastScroll>>
     ELSE /\ headerHidden' = (y > lastScroll)
          /\ lastScroll' = y

\* Header.onScroll(), with window.scrollY = y
HeaderOnScroll(y) ==
  /\ scrolled' = (y > scrollThreshold)
  /\ IF Abs(y - lastScroll) < delta
     THEN UNCHANGED <<headerHidden, lastScroll>>
     ELSE /\ headerHidden' = (y > lastScroll /\ y > scrollThreshold)
          /\ lastScroll' = y

\* Header.init()
HeaderInit ==
  /\ headerEl' = headerPresent
  /\ IF headerPresent THEN HeaderOnScroll(scrollY)
                      ELSE UNCHANGED <<lastScroll, scrolled, headerHidden>>

-----------------------------------------------------------------------------
(* MobileMenu and SmoothScroll.  The three menu indicators are handled as a  *)
(* record m = [t, o, b]: 'active' on the toggle, 'active' on the overlay,    *)
(* 'menu-open' on the body.  A click c = [in, anchor] lands in the toggle,   *)
(* on a link of the overlay, elsewhere in the overlay or elsewhere in the    *)
(* page; anchor says that closest('a[href^="#"]') is a link to an element of *)
(* the page.                                                                 *)

MenuState == [t |-> toggleActive, o |-> overlayActive, b |-> menuOpen]

\* MobileMenu.close()
MenuClose(m) ==
  [t |-> IF toggle THEN FALSE ELSE m.t,
   o |-> IF overlay THEN FALSE ELSE m.o,
   b |-> FALSE]

\* the click listener of the toggle
MenuToggleClick(m) == [t |-> ~m.t, o |-> ~m.o, b |-> ~m.b]

\* the document click listener of MobileMenu.init
MenuOutsideClick(m, c) == IF m.b /\ c.in = "page" THEN MenuClose(m) ELSE m

\* the document click listener of SmoothScroll.init; the scroll that scrollTo
\* starts reaches the page as later scroll events
SmoothScrollClick(m, c) == IF c.anchor THEN [m EXCEPT !.b = FALSE] ELSE m

\* document click listeners with SmoothScroll's registered first
SmoothScrollFirst ==
  IF menuListening THEN <<"SmoothScroll", "MobileMenu">> ELSE <<"SmoothScroll">>

\* The click listeners on document, in the order the DOMContentLoaded listener
\* registered them: MobileMenu.init() is called before SmoothScroll.init()
DocumentClickListeners ==
  IF menuListening THEN <<"MobileMenu", "SmoothScroll">> ELSE <<"SmoothScroll">>

RunListener(name, m, c) ==
  IF name = "MobileMenu" THEN MenuOutsideClick(m, c) ELSE SmoothScrollClick(m, c)

RECURSIVE Dispatch(_, _, _)
Dispatch(ls, m, c) ==
  IF ls = << >> THEN m ELSE Dispatch(Tail(ls), RunListener(Head(ls), m, c), c)

\* One click, through the listeners on its path: the toggle's listener stops
\* the propagation; a link of the overlay closes the menu before the event
\* reaches document
ClickOutcome(m, c) ==
  IF c.in = "toggle" /\ menuListening
  THEN MenuToggleClick(m)
  ELSE Dispatch(DocumentClickListeners,
                IF c.in = "overlayLink" /\ menuListening THEN MenuClose(m) ELSE m,
                c)

\* MobileMenu.init()
MobileMenuInit ==
  /\ toggle' = togglePresent
  /\ overlay' = overlayPresent
  /\ menuListening' = (togglePresent /\ overlayPresent)
  /\ UNCHANGED <<toggleActive, overlayActive, menuOpen, closedBy>>

-----------------------------------------------------------------------------
(* Parallax *)

\* an update() that leaves ticking as it is
UpdateKeepingTicking == UNCHANGED ticking

\* Parallax.update(): the transforms it writes are not part of the state
ParallaxUpdate == ticking' = FALSE

\* Parallax.init()
ParallaxInit ==
  /\ elements' = parallaxPresent
  /\ IF ~parallaxPresent \/ reducedMotion
     THEN UNCHANGED <<parallaxListening, ticking, parallaxPending>>
     ELSE /\ parallaxListening' = TRUE
          /\ ParallaxUpdate
          /\ UNCHANGED parallaxPending

\* the scroll listener of Parallax.init
ParallaxOnScroll ==
  IF parallaxListening /\ ~ticking
  THEN ticking' = TRUE /\ parallaxPending' = parallaxPending + 1
  ELSE UNCHANGED <<ticking, parallaxPending>>

-----------------------------------------------------------------------------
(* Counters.  A counter's target and the number its text shows are in tenths; *)
(* the eased progress is a fraction of EaseScale.  The digit grouping of      *)
(* toLocaleString and the suffix do not change the number shown and are left  *)
(* out.                                                                       *)

duration == 2000       \* duration: 2000
EaseScale == 100000    \* eased progress 1 is EaseScale
InvSqrt2 == 70711      \* 2^(-1/2), as a fraction of EaseScale

\* Math.pow(2, -h / 2) for a natural number h of halves
Pow2NegHalves(h) ==
  IF h % 2 = 0 THEN EaseScale \div 2^(h \div 2) ELSE InvSqrt2 \div 2^(h \div 2)

\* an easing without the t === 1 case
easeWithoutEnd(e) == EaseScale - Pow2NegHalves(Min(e, duration) \div 100)

\* easeOutExpo(progress) for progress = Math.min(e / duration, 1), e >= 0 a
\* multiple of 100 ms: -10 * progress is -(e / 100) / 2
easeOutExpo(e) ==
  IF e >= duration THEN EaseScale ELSE EaseScale - Pow2NegHalves(e \div 100)

\* The number shown for the value cur / EaseScale tenths: Math.round(current)
\* when decimals is 0, current.toFixed(1) when it is 1
Shown(cur, decimals) ==
  IF decimals > 0 THEN (cur + EaseScale \div 2) \div EaseScale
                  ELSE ((cur + 5 * EaseScale) \div (10 * EaseScale)) * 10

\* The text tick(now) writes for the element k, e = now - start
TickText(k, e) == Shown(easeOutExpo(e) * k.target, k.decimals)

\* The text animate() writes under reduced motion: target.toFixed(decimals), or
\* target.toLocaleString(), which keeps up to three fraction digits
ReducedText(k) ==
  IF k.decimals > 0 THEN Shown(k.target * EaseScale, k.decimals) ELSE k.target

\* Counters.init()
CountersInit ==
  IF Len(counterEls) = 0
  THEN UNCHANGED <<observer, observed>>
  ELSE observer' = TRUE /\ observed' = 1..Len(counterEls)

\* Counters.animate(el) for the counter c
CountersAnimate(c) ==
  /\ animations' = [animations EXCEPT ![c] = @ + 1]
  /\ cstart' = [cstart EXCEPT ![c] = now]
  /\ IF reducedMotion
     THEN /\ ctext' = [ctext EXCEPT ![c] = ReducedText(counterEls[c])]
          /\ UNCHANGED cpending
     ELSE /\ cpending' = [cpending EXCEPT ![c] = @ + 1]
          /\ UNCHANGED ctext

\* The observer callback of Counters.init, for one entry
CountersEntry(c, isIntersecting) ==
  IF ~isIntersecting
  THEN UNCHANGED <<observed, animations, cstart, cpending, ctext>>
  ELSE CountersAnimate(c) /\ observed' = observed \ {c}

\* tick(now) of the counter c
CountersTick(c) ==
  LET e == now - cstart[c]
  IN /\ ctext' = [ctext EXCEPT ![c] = TickText(counterEls[c], e)]
     /\ cpending' = [cpending EXCEPT ![c] = IF e < duration THEN @ ELSE @ - 1]

-----------------------------------------------------------------------------
(* PageTransition *)

RevealDelay == 1200   \* setTimeout(reveal, 1200)
ClearDelay == 1800    \* setTimeout(clearTransform, 1800)

\* reveal(): requests a frame
Reveal == revealPending' = revealPending + 1

\* The frame callback requested by reveal()
RevealFrameCallback ==
  /\ pageLoaded' = TRUE
  /\ ready' = TRUE

\* clearTransform()
ClearTransform == transformNone' = TRUE

\* an init() without the safety timer
InitWithoutSafetyTimer ==
  /\ revealVia' = IF fontsApi THEN "fonts" ELSE "load"
  /\ revealTimer' = -1
  /\ IF ~homepage
     THEN clearListening' = TRUE /\ clearTimer' = now + ClearDelay
     ELSE UNCHANGED <<clearListening, clearTimer>>

\* PageTransition.init()
PageTransitionInit ==
  /\ revealVia' = IF fontsApi THEN "fonts" ELSE "load"
  /\ revealTimer' = now + RevealDelay
  /\ IF ~homepage
     THEN clearListening' = TRUE /\ clearTimer' = now + ClearDelay
     ELSE UNCHANGED <<clearListening, clearTimer>>

-----------------------------------------------------------------------------
(* Inputs *)

Viewports == {<<150, 100>>, <<100, 80>>}
MousePts  == {<<0, 0>>, <<60, 50>>}
TimeStep  == ScrollDebounce \div 2

ToFixed(pt) == <<pt[1] * Scale, pt[2] * Scale>>

\* Viewports the page is loaded in when the count of particles matters: the
\* first is large enough for two particles, or for one on a touch device
StartupViewports == {<<200, 150>>, <<150, 100>>}

\* The layouts explored: no interactive element under a sample point, or one
HotRegions == {{}, {<<60, 50>>}}

\* A listener that starts the shared loop before anything is initialized
StartupSchedulerFirst == <<"startSharedLoop", "Cursor.init", "Particles.init">>

\* The calls of the DOMContentLoaded listener on a pointer-capable device that
\* concern the three modelled components, in the order it makes them
StartupCalls == <<"Cursor.init", "startSharedLoop", "Particles.init">>

\* Scroll positions, in px, around the header's threshold; the positions the
\* page may be loaded at
ScrollPositions == {0, 75, 77, 80, 81, 84, 200}
LoadPositions == {0, 200}

\* Where a click may land
ClickTargets ==
  {c \in [in : {"toggle", "overlayLink", "overlay", "page"}, anchor : BOOLEAN] :
     /\ (c.in = "toggle") => (togglePresent /\ ~c.anchor)
     /\ (c.in \in {"overlayLink", "overlay"}) => overlayPresent
     /\ (c.in = "overlay") => ~c.anchor}

\* The counters of a page, as [target, decimals] with the target in tenths:
\* 1500, 12.5 with data-decimals="1", and 12.5 without data-decimals
CounterKinds ==
  { [target |-> 15000, decimals |-> 0], [target |-> 125, decimals |-> 1],
    [target |-> 125, decimals |-> 0] }
CounterPages ==
  {<< >>} \cup {<<k>> : k \in CounterKinds}
          \cup {<<j, k>> : j \in CounterKinds, k \in CounterKinds}

\* The stretch of time that passes at once, in ms
WaitStep == 300

\* The transitionend events that reach the body's listener
TransitionEvents == [onBody : BOOLEAN, transform : BOOLEAN]

\* No input has been drawn
NoProbe == [kind |-> "none"]

\* Inputs drawn for the particle loop applied on its own: a 300 x 200 canvas,
\* the pointer at its initial position or at (100, 100), and particle lists
\* at rest on the left and right edge, around the pointer at distances 10,
\* 50, 119 and 120, moving at the largest spawn speed, and a pair 99 px apart,
\* out of the pointer's reach, moving apart
ProbeCanvas == <<300, 200>>
ProbePointers ==
  { <<-FieldMouseStart * Scale, -FieldMouseStart * Scale>>, ToFixed(<<100, 100>>) }
ParticleAt(x, y, vx, vy) == [x |-> x * Scale, y |-> y * Scale, vx |-> vx, vy |-> vy]
ProbeLists ==
  { <<ParticleAt(0, 50, 0, 0), ParticleAt(ProbeCanvas[1] - 1, 50, 0, 0)>>,
    <<ParticleAt(110, 100, 0, 0)>>,
    <<ParticleAt(130, 140, 0, 0)>>,
    <<ParticleAt(70, 60, 0, 0)>>,
    <<ParticleAt(219, 100, 0, 0)>>,
    <<ParticleAt(220, 100, 0, 0)>>,
    <<ParticleAt(150, 100, SpawnSpeed, -SpawnSpeed)>>,
    <<ParticleAt(190, 5, -SpawnSpeed, 0), ParticleAt(289, 5, SpawnSpeed, 0)>> }
\* Particle counts drawn for the connection pass
ProbeLens == {0, 1, 2, 3, ConnectionLimit - 1, ConnectionLimit, ConnectionLimit + 1}
Probes ==
  { [kind |-> "step", ps |-> ps, m |-> m, w |-> ProbeCanvas[1] * Scale,
     h |-> ProbeCanvas[2] * Scale, n |-> 0, links |-> {}] :
       ps \in ProbeLists, m \in ProbePointers }
  \cup { [kind |-> "connections", len |-> l, done |-> FALSE, pairs |-> {}] :
          l \in ProbeLens }

-----------------------------------------------------------------------------
(* Initial state: the module has been evaluated, DOMContentLoaded is to come *)

\* vs: the viewport sizes the page may be loaded in
PageInitIn(vs) ==
  /\ touch \in BOOLEAN
  /\ reducedMotion \in BOOLEAN
  /\ canvasPresent \in BOOLEAN
  /\ ctxAvailable \in BOOLEAN
  /\ elPresent \in BOOLEAN
  /\ glowPresent \in BOOLEAN
  /\ hidden \in BOOLEAN
  /\ win \in vs
  /\ now = 0
  /\ hot \in HotRegions
  /\ pointerOut = FALSE
  /\ loaded = FALSE
  /\ lastOp = "none"
  /\ prevOp = "none"
  /\ startup = << >>
  /\ headerPresent \in BOOLEAN
  /\ togglePresent \in BOOLEAN
  /\ overlayPresent \in BOOLEAN
  /\ parallaxPresent \in BOOLEAN
  /\ scrollY \in LoadPositions
  /\ headerEl = FALSE /\ lastScroll = 0 /\ scrolled = FALSE /\ headerHidden = FALSE
  /\ toggle = FALSE /\ overlay = FALSE /\ menuListening = FALSE
  /\ toggleActive = FALSE /\ overlayActive = FALSE /\ menuOpen = FALSE
  /\ closedBy = "none"
  /\ elements = FALSE /\ parallaxListening = FALSE
  /\ ticking = FALSE /\ parallaxPending = 0
  /\ counterEls \in CounterPages
  /\ observer = FALSE /\ observed = {}
  /\ animations = [c \in 1..Len(counterEls) |-> 0]
  /\ cstart = [c \in 1..Len(counterEls) |-> 0]
  /\ cpending = [c \in 1..Len(counterEls) |-> 0]
  /\ ctext = [c \in 1..Len(counterEls) |-> -1]
  /\ fontsApi \in BOOLEAN
  /\ homepage \in BOOLEAN
  /\ revealVia = "none" /\ revealFired = FALSE
  /\ revealTimer = -1 /\ revealPending = 0
  /\ pageLoaded = FALSE /\ ready = FALSE /\ reveals = 0
  /\ transformNone = FALSE /\ clearListening = FALSE /\ clearTimer = -1
  /\ canvas = FALSE
  /\ ctx = FALSE
  /\ plisten = FALSE
  /\ particles = << >>
  /\ pmouse = <<-FieldMouseStart * Scale, -FieldMouseStart * Scale>>
  /\ raf = 0
  /\ running = FALSE
  /\ cw = 0
  /\ ch = 0
  /\ pending = {}
  /\ steps = 0
  /\ stepped = FALSE
  /\ el = FALSE
  /\ glow = FALSE
  /\ cmouse = <<-CursorStart * Scale, -CursorStart * Scale>>
  /\ pos = <<-CursorStart * Scale, -CursorStart * Scale>>
  /\ glowPos = <<-CursorStart * Scale, -CursorStart * Scale>>
  /\ hovering = FALSE
  /\ hasMoved = FALSE
  /\ scrolling = FALSE
  /\ scrollTimer = 0
  /\ timers = {}
  /\ lastScrollAt = -1
  /\ rafRunning = FALSE
  /\ sharedPending = 0
  /\ sharedStarts = 0
  /\ frames = 0
  /\ frameUpdates = 0

PageInit == PageInitIn(Viewports)

\* A page without counters whose browser has the font loading API and whose
\* body is not the homepage's
PlainPage == counterEls = << >> /\ fontsApi /\ ~homepage

\* A plain page without header, mobile menu and parallax elements, loaded
\* unscrolled
NoChrome ==
  /\ ~headerPresent /\ ~togglePresent /\ ~overlayPresent /\ ~parallaxPresent
  /\ scrollY = 0
  /\ PlainPage

Init == PageInit /\ probe = NoProbe

-----------------------------------------------------------------------------
(* Operations *)

\* a DOMContentLoaded listener that runs the desktop branch on every device
LoadDesktopAlways ==
  /\ ~loaded
  /\ loaded' = TRUE
  /\ prevOp' = lastOp
  /\ UNCHANGED <<hot, pointerOut, probe>>
  /\ lastOp' = "load"
  /\ startup' = StartupCalls
  /\ HeaderInit
  /\ MobileMenuInit
  /\ CursorInit
  /\ startSharedLoop
  /\ UNCHANGED <<frames, frameUpdates>>
  /\ ParallaxInit
  /\ ParticlesInit
  /\ CountersInit
  /\ UNCHANGED <<counterEls, animations, cstart, cpending, ctext>>
  /\ PageTransitionInit
  /\ UNCHANGED <<fontsApi, homepage, revealFired, revealPending, pageLoaded, ready,
                 reveals, transformNone>>
  /\ UNCHANGED <<envVars, contentVars, scrollY>>

\* The DOMContentLoaded listener
DOMContentLoaded ==
  /\ ~loaded
  /\ loaded' = TRUE
  /\ prevOp' = lastOp
  /\ UNCHANGED <<hot, pointerOut, probe>>
  /\ lastOp' = "load"
  /\ startup' = IF touch THEN << >> ELSE StartupCalls
  /\ HeaderInit
  /\ MobileMenuInit
  /\ IF touch
     THEN UNCHANGED <<fieldVars, cursorVars, sharedVars, parallaxVars>>
     ELSE /\ CursorInit
          /\ startSharedLoop
          /\ UNCHANGED <<frames, frameUpdates>>
          /\ ParallaxInit
          /\ ParticlesInit
  /\ CountersInit
  /\ UNCHANGED <<counterEls, animations, cstart, cpending, ctext>>
  /\ PageTransitionInit
  /\ UNCHANGED <<fontsApi, homepage, revealFired, revealPending, pageLoaded, ready,
                 reveals, transformNone>>
  /\ UNCHANGED <<envVars, contentVars, scrollY>>

\* A direct call of Particles.start()
CallStart ==
  /\ loaded
  /\ steps < MaxSteps
  /\ prevOp' = lastOp
  /\ UNCHANGED <<hot, pointerOut, startup, probe, chromeVars>>
  /\ lastOp' = "start"
  /\ ParticlesStart(particles, cw, ch, ctx)
  /\ UNCHANGED <<canvas, ctx, plisten, pmouse, cw, ch>>
  /\ UNCHANGED <<envVars, loaded, cursorVars, sharedVars>>

\* A direct call of Particles.stop()
CallStop ==
  /\ loaded
  /\ prevOp' = lastOp
  /\ UNCHANGED <<hot, pointerOut, startup, probe, chromeVars>>
  /\ lastOp' = "stop"
  /\ ParticlesStop
  /\ UNCHANGED <<canvas, ctx, plisten, pmouse, cw, ch>>
  /\ UNCHANGED <<envVars, loaded, cursorVars, sharedVars>>

\* The page becomes hidden or visible: the visibilitychange listener
VisibilityChange ==
  /\ loaded
  /\ steps < MaxSteps
  /\ hidden' = ~hidden
  /\ prevOp' = lastOp
  /\ UNCHANGED <<hot, pointerOut, startup, probe, chromeVars>>
  /\ lastOp' = IF hidden THEN "visible" ELSE "hidden"
  /\ IF plisten
     THEN IF hidden' THEN ParticlesStop
                     ELSE ParticlesStart(particles, cw, ch, ctx)
     ELSE stepped' = FALSE /\ UNCHANGED <<particles, raf, running, pending, steps>>
  /\ UNCHANGED <<canvas, ctx, plisten, pmouse, cw, ch>>
  /\ UNCHANGED <<touch, reducedMotion, canvasPresent, ctxAvailable, elPresent,
                 glowPresent, win, now, loaded, cursorVars, sharedVars>>

\* A resize listener that respawns for the new area
ResizeRespawning ==
  /\ loaded
  /\ \E v \in Viewports \ {win} :
       /\ win' = v
       /\ IF plisten /\ canvas
          THEN /\ cw' = v[1] * Scale /\ ch' = v[2] * Scale
               /\ particles' \in Spawn(Count(v[1] * v[2]), v[1] * Scale, v[2] * Scale)
          ELSE UNCHANGED <<cw, ch, particles>>
  /\ prevOp' = lastOp
  /\ UNCHANGED <<hot, pointerOut, startup, probe, chromeVars>>
  /\ lastOp' = "resize"
  /\ stepped' = FALSE
  /\ UNCHANGED <<canvas, ctx, plisten, pmouse, raf, running, pending, steps>>
  /\ UNCHANGED <<touch, reducedMotion, canvasPresent, ctxAvailable, elPresent,
                 glowPresent, hidden, now, loaded, cursorVars, sharedVars>>

\* The window is resized: the resize listener, Particles.resize()
Resize ==
  /\ loaded
  /\ \E v \in Viewports \ {win} :
       /\ win' = v
       /\ IF plisten /\ canvas
          THEN cw' = v[1] * Scale /\ ch' = v[2] * Scale
          ELSE UNCHANGED <<cw, ch>>
  /\ prevOp' = lastOp
  /\ UNCHANGED <<hot, pointerOut, startup, probe, chromeVars>>
  /\ lastOp' = "resize"
  /\ stepped' = FALSE
  /\ UNCHANGED <<canvas, ctx, plisten, particles, pmouse, raf, running, pending, steps>>
  /\ UNCHANGED <<touch, reducedMotion, canvasPresent, ctxAvailable, elPresent,
                 glowPresent, hidden, now, loaded, cursorVars, sharedVars>>

\* The browser runs a pending frame callback of the particle loop
ParticleFrame ==
  /\ steps < MaxSteps
  /\ \E id \in pending :
       ParticlesLoop(running, particles, cw, ch, ctx, pending \ {id})
  /\ prevOp' = lastOp
  /\ UNCHANGED <<hot, pointerOut, startup, probe, chromeVars>>
  /\ lastOp' = "tick"
  /\ UNCHANGED <<canvas, ctx, plisten, pmouse, running, cw, ch>>
  /\ UNCHANGED <<envVars, loaded, cursorVars, sharedVars>>

\* The pointer moves: the mousemove listeners of Cursor and of Particles
MouseMove ==
  /\ loaded
  /\ \E pt \in MousePts :
       /\ IF el THEN CursorMouseMove(ToFixed(pt))
                ELSE UNCHANGED <<cmouse, hasMoved, pos, glowPos>>
       /\ pmouse' = IF plisten /\ ~touch THEN ToFixed(pt) ELSE pmouse
  /\ pointerOut' = FALSE
  /\ prevOp' = lastOp
  /\ UNCHANGED <<hot, startup, probe, chromeVars>>
  /\ lastOp' = "mousemove"
  /\ stepped' = FALSE
  /\ UNCHANGED <<canvas, ctx, plisten, particles, raf, running, cw, ch, pending, steps>>
  /\ UNCHANGED <<el, glow, hovering, scrolling, scrollTimer, timers, lastScrollAt>>
  /\ UNCHANGED <<envVars, loaded, sharedVars>>

\* The pointer leaves the page: no listener of part_000 is registered for
\* mouseleave, so no field of Cursor or Particles changes
MouseLeave ==
  /\ loaded
  /\ ~pointerOut
  /\ pointerOut' = TRUE
  /\ prevOp' = lastOp
  /\ lastOp' = "mouseleave"
  /\ stepped' = FALSE
  /\ UNCHANGED <<hot, startup, probe, chromeVars>>
  /\ UNCHANGED <<canvas, ctx, plisten, particles, pmouse, raf, running, cw, ch,
                 pending, steps>>
  /\ UNCHANGED <<envVars, loaded, cursorVars, sharedVars>>

\* The page's content moves under the viewport (scrolling, layout)
PageMoves ==
  /\ loaded
  /\ hot' \in HotRegions \ {hot}
  /\ prevOp' = lastOp
  /\ lastOp' = "pagemoves"
  /\ UNCHANGED <<pointerOut, startup, probe, chromeVars>>
  /\ UNCHANGED <<envVars, loaded, fieldVars, cursorVars, sharedVars>>

\* The page scrolls: the scroll listeners of Cursor, Header and Parallax.  The
\* position scrolled to is followed only while Header, its one reader, listens.
Scroll ==
  /\ loaded
  /\ lastScrollAt' = now
  /\ IF el THEN CursorScroll ELSE UNCHANGED <<scrolling, scrollTimer, timers>>
  /\ IF headerEl
     THEN \E y \in ScrollPositions \ {scrollY} : scrollY' = y /\ HeaderOnScroll(y)
     ELSE UNCHANGED <<scrollY, lastScroll, scrolled, headerHidden>>
  /\ ParallaxOnScroll
  /\ UNCHANGED <<contentVars, headerEl, menuVars, elements, parallaxListening>>
  /\ UNCHANGED <<counterVars, revealVars>>
  /\ prevOp' = lastOp
  /\ UNCHANGED <<hot, pointerOut, startup, probe>>
  /\ lastOp' = "scroll"
  /\ UNCHANGED <<el, glow, cmouse, pos, glowPos, hovering, hasMoved>>
  /\ UNCHANGED <<envVars, loaded, fieldVars, sharedVars>>

\* A scroll event early enough for its timeout to expire within the time explored
ScrollInTime ==
  /\ now + ScrollDebounce <= MaxTicksOfTime * TimeStep
  /\ Scroll

\* A timeout of the scroll listener expires and its callback runs
ScrollTimeout ==
  /\ \E t \in timers :
       /\ now >= t
       /\ timers' = timers \ {t}
  /\ CursorScrollEnd(ElementHit(cmouse))
  /\ prevOp' = lastOp
  /\ UNCHANGED <<hot, pointerOut, startup, probe, chromeVars>>
  /\ lastOp' = "timeout"
  /\ UNCHANGED <<el, glow, cmouse, pos, glowPos, hasMoved, scrollTimer, lastScrollAt>>
  /\ UNCHANGED <<envVars, loaded, fieldVars, sharedVars>>

\* The pointer enters an element: the mouseover listener
MouseOver ==
  /\ loaded
  /\ \E interactive \in BOOLEAN :
       IF el THEN CursorMouseOver(interactive) ELSE UNCHANGED hovering
  /\ prevOp' = lastOp
  /\ UNCHANGED <<hot, pointerOut, startup, probe, chromeVars>>
  /\ lastOp' = "mouseover"
  /\ UNCHANGED <<el, glow, cmouse, pos, glowPos, hasMoved, scrolling, scrollTimer,
                 timers, lastScrollAt>>
  /\ UNCHANGED <<envVars, loaded, fieldVars, sharedVars>>

\* The pointer leaves an element: the mouseout listener
MouseOut ==
  /\ loaded
  /\ \E interactive \in BOOLEAN :
       IF el THEN CursorMouseOut(interactive) ELSE UNCHANGED hovering
  /\ prevOp' = lastOp
  /\ UNCHANGED <<hot, pointerOut, startup, probe, chromeVars>>
  /\ lastOp' = "mouseout"
  /\ UNCHANGED <<el, glow, cmouse, pos, glowPos, hasMoved, scrolling, scrollTimer,
                 timers, lastScrollAt>>
  /\ UNCHANGED <<envVars, loaded, fieldVars, sharedVars>>

\* A further call of startSharedLoop()
CallStartSharedLoop ==
  /\ loaded
  /\ sharedStarts < MaxSharedStarts
  /\ startSharedLoop
  /\ prevOp' = lastOp
  /\ UNCHANGED <<hot, pointerOut, startup, probe, chromeVars>>
  /\ lastOp' = "startShared"
  /\ UNCHANGED <<frames, frameUpdates>>
  /\ UNCHANGED <<envVars, loaded, fieldVars, cursorVars>>

\* a shared tick that also moves the Particle Field's pointer to the dot
SharedFrameMovingFieldPointer ==
  /\ sharedPending > 0
  /\ frames < MaxFrames
  /\ LET c == UpdateTimes([pos |-> pos, glowPos |-> glowPos], sharedPending)
     IN pos' = c.pos /\ glowPos' = c.glowPos
  /\ pmouse' = pos'
  /\ frames' = frames + 1
  /\ frameUpdates' = sharedPending
  /\ prevOp' = lastOp
  /\ UNCHANGED <<hot, pointerOut, startup, probe, chromeVars>>
  /\ lastOp' = "frame"
  /\ UNCHANGED <<rafRunning, sharedPending, sharedStarts>>
  /\ UNCHANGED <<el, glow, cmouse, hovering, hasMoved, scrolling, scrollTimer,
                 timers, lastScrollAt>>
  /\ UNCHANGED <<canvas, ctx, plisten, particles, raf, running, cw, ch, pending, steps,
                 stepped>>
  /\ UNCHANGED <<envVars, loaded>>

\* A display frame: the browser runs every pending tick of the shared loop;
\* each calls Cursor.update() and requests the next tick
SharedFrame ==
  /\ sharedPending > 0
  /\ frames < MaxFrames
  /\ LET c == UpdateTimes([pos |-> pos, glowPos |-> glowPos], sharedPending)
     IN pos' = c.pos /\ glowPos' = c.glowPos
  /\ frames' = frames + 1
  /\ frameUpdates' = sharedPending
  /\ prevOp' = lastOp
  /\ UNCHANGED <<hot, pointerOut, startup, probe, chromeVars>>
  /\ lastOp' = "frame"
  /\ UNCHANGED <<rafRunning, sharedPending, sharedStarts>>
  /\ UNCHANGED <<el, glow, cmouse, hovering, hasMoved, scrolling, scrollTimer,
                 timers, lastScrollAt>>
  /\ UNCHANGED <<envVars, loaded, fieldVars>>

\* One tick's passes over the drawn list (the per-particle loop, then the
\* connection loop), every drift draw 0
ProbeStep ==
  /\ probe.kind = "step"
  /\ probe.n < MaxProbeSteps
  /\ LET after == StepAll(probe.ps, probe.m, probe.w, probe.h,
                          [i \in 1..Len(probe.ps) |-> <<0, 0>>])
     IN probe' = [probe EXCEPT !.ps = after,
                               !.links = DrawnConnections(probe.ps, after),
                               !.n = @ + 1]
  /\ prevOp' = lastOp
  /\ lastOp' = "probeStep"
  /\ UNCHANGED <<envVars, pointerVars, loaded, startup, chromeVars, fieldVars, cursorVars,
                 sharedVars>>

\* The connection pass over a list of the drawn length
ProbeConnections ==
  /\ probe.kind = "connections"
  /\ ~probe.done
  /\ probe' = [probe EXCEPT !.pairs = ConnectionPass(probe.len), !.done = TRUE]
  /\ prevOp' = lastOp
  /\ lastOp' = "probeConnections"
  /\ UNCHANGED <<envVars, pointerVars, loaded, startup, chromeVars, fieldVars, cursorVars,
                 sharedVars>>

\* A display frame of the shared loop, as SharedFrame but not counted, so that
\* the loop can run on for as long as the browser keeps calling it
SharedFrameOn ==
  /\ sharedPending > 0
  /\ LET c == UpdateTimes([pos |-> pos, glowPos |-> glowPos], sharedPending)
     IN pos' = c.pos /\ glowPos' = c.glowPos
  /\ frameUpdates' = sharedPending
  /\ prevOp' = lastOp
  /\ lastOp' = "frame"
  /\ UNCHANGED <<rafRunning, sharedPending, sharedStarts, frames>>
  /\ UNCHANGED <<el, glow, cmouse, hovering, hasMoved, scrolling, scrollTimer,
                 timers, lastScrollAt>>
  /\ UNCHANGED <<envVars, pointerVars, loaded, startup, chromeVars, fieldVars, probe>>

\* A pointer sample that arrives before the first display frame
MouseMoveFirst ==
  /\ frameUpdates = 0
  /\ MouseMove

\* A click somewhere in the page: the click listeners of MobileMenu.init and
\* SmoothScroll.init on its path
Click ==
  /\ loaded
  /\ \E c \in ClickTargets :
       LET m == ClickOutcome(MenuState, c)
       IN /\ toggleActive' = m.t
          /\ overlayActive' = m.o
          /\ menuOpen' = m.b
          /\ closedBy' = IF menuOpen /\ ~m.b THEN c.in ELSE "none"
          /\ lastOp' = IF c.anchor THEN "anchorClick" ELSE "click"
  /\ prevOp' = lastOp
  /\ UNCHANGED <<toggle, overlay, menuListening>>
  /\ UNCHANGED <<contentVars, scrollY, headerVars, parallaxVars, counterVars, revealVars>>
  /\ UNCHANGED <<envVars, pointerVars, loaded, startup, fieldVars, cursorVars,
                 sharedVars, probe>>

\* The Escape key is pressed: the keydown listener of MobileMenu.init
KeyEscape ==
  /\ loaded
  /\ LET m == IF menuListening /\ menuOpen THEN MenuClose(MenuState) ELSE MenuState
     IN /\ toggleActive' = m.t
        /\ overlayActive' = m.o
        /\ menuOpen' = m.b
        /\ closedBy' = IF menuOpen /\ ~m.b THEN "escape" ELSE "none"
  /\ prevOp' = lastOp
  /\ lastOp' = "escape"
  /\ UNCHANGED <<toggle, overlay, menuListening>>
  /\ UNCHANGED <<contentVars, scrollY, headerVars, parallaxVars, counterVars, revealVars>>
  /\ UNCHANGED <<envVars, pointerVars, loaded, startup, fieldVars, cursorVars,
                 sharedVars, probe>>

\* The browser runs a pending frame callback of Parallax
ParallaxFrame ==
  /\ parallaxPending > 0
  /\ parallaxPending' = parallaxPending - 1
  /\ ParallaxUpdate
  /\ prevOp' = lastOp
  /\ lastOp' = "parallaxFrame"
  /\ UNCHANGED <<elements, parallaxListening>>
  /\ UNCHANGED <<contentVars, scrollY, headerVars, menuVars, counterVars, revealVars>>
  /\ UNCHANGED <<envVars, pointerVars, loaded, startup, fieldVars, cursorVars,
                 sharedVars, probe>>

\* The intersection observer of Counters delivers an entry for an observed
\* counter; animations are begun while the time explored leaves room for them
CounterIntersect ==
  /\ observer
  /\ now + duration <= MaxWaits * WaitStep
  /\ \E c \in observed, isIntersecting \in BOOLEAN :
       /\ CountersEntry(c, isIntersecting)
       /\ lastOp' = IF isIntersecting THEN "intersect" ELSE "apart"
  /\ prevOp' = lastOp
  /\ UNCHANGED <<counterEls, observer, revealVars>>
  /\ UNCHANGED <<contentVars, scrollY, headerVars, menuVars, parallaxVars>>
  /\ UNCHANGED <<envVars, pointerVars, loaded, startup, fieldVars, cursorVars,
                 sharedVars, probe>>

\* The browser runs the pending frame callback of a counter
CounterFrame ==
  /\ \E c \in DOMAIN cpending :
       /\ cpending[c] > 0
       /\ CountersTick(c)
  /\ prevOp' = lastOp
  /\ lastOp' = "counterFrame"
  /\ UNCHANGED <<counterEls, observer, observed, animations, cstart, revealVars>>
  /\ UNCHANGED <<contentVars, scrollY, headerVars, menuVars, parallaxVars>>
  /\ UNCHANGED <<envVars, pointerVars, loaded, startup, fieldVars, cursorVars,
                 sharedVars, probe>>

\* document.fonts.ready resolves
FontsReady ==
  /\ revealVia = "fonts" /\ ~revealFired
  /\ revealFired' = TRUE
  /\ Reveal
  /\ prevOp' = lastOp
  /\ lastOp' = "fontsReady"
  /\ UNCHANGED <<fontsApi, homepage, revealVia, revealTimer, pageLoaded, ready,
                 reveals, transformNone, clearListening, clearTimer, counterVars>>
  /\ UNCHANGED <<contentVars, scrollY, headerVars, menuVars, parallaxVars>>
  /\ UNCHANGED <<envVars, pointerVars, loaded, startup, fieldVars, cursorVars,
                 sharedVars, probe>>

\* The window's load event
LoadEvent ==
  /\ revealVia = "load" /\ ~revealFired
  /\ revealFired' = TRUE
  /\ Reveal
  /\ prevOp' = lastOp
  /\ lastOp' = "loadEvent"
  /\ UNCHANGED <<fontsApi, homepage, revealVia, revealTimer, pageLoaded, ready,
                 reveals, transformNone, clearListening, clearTimer, counterVars>>
  /\ UNCHANGED <<contentVars, scrollY, headerVars, menuVars, parallaxVars>>
  /\ UNCHANGED <<envVars, pointerVars, loaded, startup, fieldVars, cursorVars,
                 sharedVars, probe>>

\* The safety timer of PageTransition expires
RevealTimeout ==
  /\ revealTimer >= 0 /\ now >= revealTimer
  /\ revealTimer' = -1
  /\ Reveal
  /\ prevOp' = lastOp
  /\ lastOp' = "revealTimeout"
  /\ UNCHANGED <<fontsApi, homepage, revealVia, revealFired, pageLoaded, ready,
                 reveals, transformNone, clearListening, clearTimer, counterVars>>
  /\ UNCHANGED <<contentVars, scrollY, headerVars, menuVars, parallaxVars>>
  /\ UNCHANGED <<envVars, pointerVars, loaded, startup, fieldVars, cursorVars,
                 sharedVars, probe>>

\* The browser runs a frame callback requested by reveal()
RevealFrame ==
  /\ revealPending > 0
  /\ revealPending' = revealPending - 1
  /\ RevealFrameCallback
  /\ reveals' = reveals + 1
  /\ prevOp' = lastOp
  /\ lastOp' = "revealFrame"
  /\ UNCHANGED <<fontsApi, homepage, revealVia, revealFired, revealTimer,
                 transformNone, clearListening, clearTimer, counterVars>>
  /\ UNCHANGED <<contentVars, scrollY, headerVars, menuVars, parallaxVars>>
  /\ UNCHANGED <<envVars, pointerVars, loaded, startup, fieldVars, cursorVars,
                 sharedVars, probe>>

\* A transitionend event reaches the listener on the body
TransitionEnd ==
  /\ clearListening
  /\ \E e \in TransitionEvents :
       IF e.onBody /\ e.transform
       THEN ClearTransform /\ clearListening' = FALSE
       ELSE UNCHANGED <<transformNone, clearListening>>
  /\ prevOp' = lastOp
  /\ lastOp' = "transitionend"
  /\ UNCHANGED <<fontsApi, homepage, revealVia, revealFired, revealTimer,
                 revealPending, pageLoaded, ready, reveals, clearTimer, counterVars>>
  /\ UNCHANGED <<contentVars, scrollY, headerVars, menuVars, parallaxVars>>
  /\ UNCHANGED <<envVars, pointerVars, loaded, startup, fieldVars, cursorVars,
                 sharedVars, probe>>

\* The safety timer of clearTransform expires
ClearTimeout ==
  /\ clearTimer >= 0 /\ now >= clearTimer
  /\ clearTimer' = -1
  /\ ClearTransform
  /\ prevOp' = lastOp
  /\ lastOp' = "clearTimeout"
  /\ UNCHANGED <<fontsApi, homepage, revealVia, revealFired, revealTimer,
                 revealPending, pageLoaded, ready, reveals, clearListening,
                 counterVars>>
  /\ UNCHANGED <<contentVars, scrollY, headerVars, menuVars, parallaxVars>>
  /\ UNCHANGED <<envVars, pointerVars, loaded, startup, fieldVars, cursorVars,
                 sharedVars, probe>>

\* A longer stretch of time passes
Wait ==
  /\ loaded
  /\ now < MaxWaits * WaitStep
  /\ now' = now + WaitStep
  /\ prevOp' = lastOp
  /\ lastOp' = "wait"
  /\ UNCHANGED <<counterVars, revealVars>>
  /\ UNCHANGED <<contentVars, scrollY, headerVars, menuVars, parallaxVars>>
  /\ UNCHANGED <<touch, reducedMotion, canvasPresent, ctxAvailable, elPresent,
                 glowPresent, hidden, win, pointerVars, loaded, startup, fieldVars, cursorVars,
                 sharedVars, probe>>

\* Time passes
Advance ==
  /\ loaded
  /\ now < MaxTicksOfTime * TimeStep
  /\ now' = now + TimeStep
  /\ prevOp' = lastOp
  /\ UNCHANGED <<hot, pointerOut, startup, probe, chromeVars>>
  /\ lastOp' = "advance"
  /\ UNCHANGED <<touch, reducedMotion, canvasPresent, ctxAvailable, elPresent,
                 glowPresent, hidden, win, loaded, fieldVars, cursorVars, sharedVars>>

-----------------------------------------------------------------------------
(* Specifications *)

Next ==
  \/ DOMContentLoaded
  \/ CallStart
  \/ CallStop
  \/ VisibilityChange
  \/ Resize
  \/ ParticleFrame
  \/ MouseMove
  \/ MouseLeave
  \/ PageMoves
  \/ Scroll
  \/ ScrollTimeout
  \/ MouseOver
  \/ MouseOut
  \/ CallStartSharedLoop
  \/ SharedFrame
  \/ Click
  \/ KeyEscape
  \/ ParallaxFrame
  \/ CounterIntersect
  \/ CounterFrame
  \/ FontsReady
  \/ LoadEvent
  \/ RevealTimeout
  \/ RevealFrame
  \/ TransitionEnd
  \/ ClearTimeout
  \/ Wait
  \/ Advance

\* The whole page
Spec == Init /\ [][Next]_vars

\* The Particle Field alone: a page without a .cursor element
FieldInit == Init /\ NoChrome /\ ~elPresent /\ ~glowPresent /\ hot = {}

FieldNext ==
  \/ DOMContentLoaded
  \/ CallStart
  \/ CallStop
  \/ VisibilityChange
  \/ Resize
  \/ ParticleFrame
  \/ MouseMove
  \/ MouseLeave

FieldSpec == FieldInit /\ [][FieldNext]_vars

\* The Pointer Follower and the shared loop alone: a page without a canvas
CursorSpecInit ==
  /\ Init /\ NoChrome
  /\ ~canvasPresent /\ ~ctxAvailable /\ ~reducedMotion /\ ~hidden
  /\ win = <<150, 100>>

CursorNext ==
  \/ DOMContentLoaded
  \/ MouseMove
  \/ Scroll
  \/ ScrollTimeout
  \/ MouseOver
  \/ MouseOut
  \/ CallStartSharedLoop
  \/ SharedFrame
  \/ Advance

CursorSpec == CursorSpecInit /\ [][CursorNext]_vars

\* The particle loop applied to drawn inputs
ProbeInit ==
  /\ PageInitIn({<<150, 100>>}) /\ probe \in Probes /\ NoChrome
  /\ ~reducedMotion /\ canvasPresent /\ ctxAvailable /\ ~hidden
  /\ ~elPresent /\ ~glowPresent /\ hot = {}

ProbeNext ==
  \/ ProbeStep
  \/ ProbeConnections

ProbeSpec == ProbeInit /\ [][ProbeNext]_vars

\* The Pointer Follower under a target that is constant once frames begin.  The
\* browser keeps running the pending tick of the shared loop.
ConvergeInit == CursorSpecInit /\ ~touch /\ elPresent /\ hot = {}

ConvergeNext ==
  \/ DOMContentLoaded
  \/ MouseMoveFirst
  \/ SharedFrameOn

ConvergeSpec == ConvergeInit /\ [][ConvergeNext]_vars /\ WF_vars(SharedFrameOn)

\* Page startup and the first display frames, on a page without a glow element
StartupInit ==
  /\ PageInitIn(StartupViewports) /\ probe = NoProbe /\ NoChrome
  /\ ~glowPresent /\ hot = {}

StartupNext ==
  \/ DOMContentLoaded
  \/ Resize
  \/ MouseMove
  \/ SharedFrame

StartupSpec == StartupInit /\ [][StartupNext]_vars

\* Scrolling over a page with a .cursor element on a pointer-capable device.
\* The browser runs the callback of a timeout that is due, and time passes.
ScrollInit == CursorSpecInit /\ ~touch /\ elPresent

ScrollNext ==
  \/ DOMContentLoaded
  \/ MouseMove
  \/ PageMoves
  \/ ScrollInTime
  \/ ScrollTimeout
  \/ MouseOver
  \/ Advance

ScrollSpec ==
  ScrollInit /\ [][ScrollNext]_vars /\ WF_vars(ScrollTimeout) /\ WF_vars(Advance)

\* Both loops on a desktop page with the dot present and a usable canvas
TwoLoopsInit ==
  /\ Init /\ NoChrome
  /\ ~touch /\ elPresent /\ canvasPresent /\ ctxAvailable
  /\ ~reducedMotion /\ ~hidden
  /\ win = <<150, 100>> /\ hot = {}

TwoLoopsNext ==
  \/ DOMContentLoaded
  \/ MouseMove
  \/ ParticleFrame
  \/ SharedFrame

TwoLoopsSpec == TwoLoopsInit /\ [][TwoLoopsNext]_vars

\* The Particle Field driven by the browser's events only: nothing but its own
\* listeners and frame callbacks calls start() or stop()
LifecycleNext ==
  \/ DOMContentLoaded
  \/ VisibilityChange
  \/ Resize
  \/ ParticleFrame
  \/ MouseMove
  \/ MouseLeave

LifecycleSpec == FieldInit /\ [][LifecycleNext]_vars

\* The Pointer Follower driven by the browser's events only: nothing but the
\* DOMContentLoaded listener calls startSharedLoop()
PointerEventsNext ==
  \/ DOMContentLoaded
  \/ MouseMove
  \/ Scroll
  \/ ScrollTimeout
  \/ MouseOver
  \/ MouseOut
  \/ SharedFrame
  \/ Advance

PointerEventsSpec == CursorSpecInit /\ [][PointerEventsNext]_vars

\* Header, mobile menu, smooth scroll and parallax on a page without .cursor
\* and #particles elements
ChromeInit ==
  /\ Init
  /\ PlainPage
  /\ ~elPresent /\ ~glowPresent /\ ~canvasPresent /\ ~ctxAvailable
  /\ ~hidden /\ win = <<150, 100>> /\ hot = {}

ChromeNext ==
  \/ DOMContentLoaded
  \/ Scroll
  \/ Click
  \/ KeyEscape
  \/ ParallaxFrame

ChromeSpec == ChromeInit /\ [][ChromeNext]_vars

\* The counters of a visible page without .cursor, #particles, header, menu
\* and parallax elements; frames are delivered and time passes
CounterInit ==
  /\ Init
  /\ ~elPresent /\ ~glowPresent /\ ~canvasPresent /\ ~ctxAvailable
  /\ ~headerPresent /\ ~togglePresent /\ ~overlayPresent /\ ~parallaxPresent
  /\ scrollY = 0 /\ fontsApi /\ ~homepage
  /\ ~hidden /\ win = <<150, 100>> /\ hot = {} /\ ~touch

CounterNext ==
  \/ DOMContentLoaded
  \/ CounterIntersect
  \/ CounterFrame
  \/ Wait

CounterSpec ==
  CounterInit /\ [][CounterNext]_vars /\ WF_vars(CounterFrame) /\ WF_vars(Wait)

\* The page transition of a visible page without counters and without .cursor,
\* #particles, header, menu and parallax elements; the timers expire, frames
\* are delivered and time passes, the font and load events may never come
RevealInit ==
  /\ Init
  /\ ~elPresent /\ ~glowPresent /\ ~canvasPresent /\ ~ctxAvailable
  /\ ~headerPresent /\ ~togglePresent /\ ~overlayPresent /\ ~parallaxPresent
  /\ scrollY = 0 /\ counterEls = << >>
  /\ ~hidden /\ win = <<150, 100>> /\ hot = {}

RevealNext ==
  \/ DOMContentLoaded
  \/ FontsReady
  \/ LoadEvent
  \/ RevealTimeout
  \/ RevealFrame
  \/ TransitionEnd
  \/ ClearTimeout
  \/ Wait

RevealSpec ==
  /\ RevealInit /\ [][RevealNext]_vars
  /\ WF_vars(RevealTimeout) /\ WF_vars(ClearTimeout) /\ WF_vars(RevealFrame)
  /\ WF_vars(Wait)


-----------------------------------------------------------------------------
(* Claims *)

\* C1: whatever start(), stop(), visibility changes and frame ticks have
\* happened, at most one frame callback of the particle loop is pending.
C1_SingleParticleLoop == Cardinality(pending) <= 1

\* start() has just been called twice in succession and one callback is pending
C1_Witness ==
  /\ prevOp = "start" /\ lastOp = "start"
  /\ ctx /\ running /\ Cardinality(pending) = 1

\* C2: once startSharedLoop() has been called, however often, exactly one
\* chain of the shared loop is in flight: one tick is pending, and a display
\* frame calls Cursor.update() once and leaves one tick pending.
C2_SingleSharedChain ==
  /\ sharedPending = IF rafRunning THEN 1 ELSE 0
  /\ rafRunning = (sharedStarts >= 1)
  /\ (lastOp = "frame" => frameUpdates = 1 /\ sharedPending = 1)

\* a display frame after startSharedLoop() was called more than once
C2_Witness ==
  /\ lastOp = "frame" /\ sharedStarts >= 2
  /\ frameUpdates = 1 /\ sharedPending = 1

\* C3 (as claimed): after a step of the particle loop every particle lies in
\* the half-open box, 0 <= x < width and 0 <= y < height.
C3_HalfOpenBounds ==
  stepped =>
    \A i \in 1..Len(particles) :
      /\ FLt(-1, particles[i].x) /\ FLt(particles[i].x, cw)
      /\ FLt(-1, particles[i].y) /\ FLt(particles[i].y, ch)

\* C4 (as claimed): no particle's position or velocity is ever NaN.
C4_AlwaysFinite ==
  \A i \in 1..Len(particles) :
    /\ ~IsNaN(particles[i].x) /\ ~IsNaN(particles[i].y)
    /\ ~IsNaN(particles[i].vx) /\ ~IsNaN(particles[i].vy)

\* C5 (as claimed): without the canvas element or without its 2D context, no
\* operation changes the field: no particles, not running, nothing scheduled.
C5_MissingSurfaceInert ==
  (~canvasPresent \/ ~ctxAvailable) =>
    /\ particles = << >>
    /\ ~running
    /\ pending = {} /\ raf = 0

\* C6: once stop() has returned the field is not running and no callback is
\* pending, and as long as it is not running no step is performed.
C6_StoppedIsQuiet ==
  /\ (lastOp = "stop" => ~running)
  /\ ((lastOp = "hidden" /\ plisten) => ~running)
  /\ (~running => pending = {})
  /\ (stepped => running)

\* stop() has just cancelled the callback of a field that had stepped
C6_Witness ==
  /\ lastOp = "stop" /\ prevOp = "tick"
  /\ ctx /\ steps >= 2 /\ raf # 0 /\ Len(particles) >= 1

\* ps1 is ps0, or ps0 after one step
ContinuesFrom(ps0, ps1) ==
  \/ ps1 = ps0
  \/ \E dr \in [1..Len(ps0) -> DriftDraws] : ps1 = StepAll(ps0, pmouse, cw, ch, dr)

\* C7: stop() leaves the particles as they are, they stay so while the field
\* is stopped, and start() resumes from them:
\* the particles after start() are the ones stop() left, stepped at most once;
\* none is added, removed or drawn anew, and one frame callback is pending
\* again, so that the following frames step them.
C7_ResumeWithoutRespawn ==
  [][ /\ (lastOp' \in {"stop", "hidden"} => particles' = particles)
      /\ ((~running /\ ~running') => particles' = particles)
      /\ (lastOp' \in {"start", "visible"} =>
            /\ Len(particles') = Len(particles)
            /\ ContinuesFrom(particles, particles'))
      /\ ((lastOp' \in {"start", "visible"} /\ ctx) =>
            running' /\ Cardinality(pending') = 1) ]_vars

\* start() right after stop() has stepped the particles the field held
C7_Witness ==
  /\ prevOp = "stop" /\ lastOp = "start"
  /\ running /\ stepped /\ Len(particles) >= 1

\* C8: the first pointer sample sets pos and glowPos to the sample; a later
\* sample changes Cursor.mouse only.
C8_FirstSampleSnap ==
  [][ (lastOp' = "mousemove" /\ el) =>
        IF ~hasMoved
        THEN pos' = cmouse' /\ glowPos' = cmouse' /\ hasMoved'
        ELSE pos' = pos /\ glowPos' = glowPos ]_vars

\* the first sample has just arrived and both lagged positions equal it
C8_Witness ==
  /\ prevOp = "load" /\ lastOp = "mousemove"
  /\ el /\ hasMoved /\ pos = cmouse /\ glowPos = cmouse
  /\ cmouse \in {ToFixed(pt) : pt \in MousePts}

\* C9: a frame of the shared loop that finds no pointer sample yet, or no
\* cursor element, changes neither lagged position, nor the raw sample, nor
\* the hovering flag.
C9_UpdateBeforeSampleIsNoOp ==
  [][ (lastOp' = "frame" /\ (~el \/ ~hasMoved)) =>
        UNCHANGED <<pos, glowPos, cmouse, hovering>> ]_vars

\* Cursor.update() has run twice on a cursor that has no sample yet
C9_Witness ==
  /\ lastOp = "frame" /\ prevOp = "frame" /\ frames >= 2
  /\ el /\ ~hasMoved

\* Less than 100 ms have passed since the last scroll event
InQuietPeriod == lastScrollAt >= 0 /\ now < lastScrollAt + ScrollDebounce

\* C10: in the 100 ms after the last scroll event, pointer-over and
\* pointer-out events leave the hovering flag as it is.
C10_ScrollSuppressesHover ==
  [][ (InQuietPeriod /\ lastOp' \in {"mouseover", "mouseout"}) =>
        hovering' = hovering ]_vars

\* a pointer-over arrives after the first scroll's 100 ms, inside the quiet
\* period a later scroll restarted
C10_Witness ==
  /\ lastOp = "mouseover" /\ el /\ scrolling
  /\ lastScrollAt > 0 /\ now >= ScrollDebounce
  /\ now < lastScrollAt + ScrollDebounce

\* C11: a burst of scroll events ends in exactly one recomputation of the
\* hover state: at most one debounce timeout is pending at any time, and it
\* is the one of the last scroll event; its callback runs no earlier than
\* ScrollDebounce ms after that event, clears the scrolling flag and sets
\* hovering to whether the element under the latest raw pointer sample is
\* interactive; while scrolling nothing else changes hovering; and once
\* scroll events cease the scrolling flag is eventually cleared.
C11_DebouncedRecompute ==
  /\ [](/\ Cardinality(timers) <= 1
        /\ scrolling <=> timers # {}
        /\ \A t \in timers : t = lastScrollAt + ScrollDebounce)
  /\ [][(lastOp' = "timeout") =>
           /\ now >= lastScrollAt + ScrollDebounce
           /\ hovering' = (\E h \in hot : cmouse = <<h[1] * Scale, h[2] * Scale>>)
           /\ ~scrolling'
           /\ timers' = {}]_vars
  /\ [][(scrolling /\ hovering' # hovering) => (lastOp' = "timeout")]_vars
  /\ scrolling ~> ~scrolling

\* two scroll events 50 ms apart, then 100 quiet ms, then the callback found an
\* interactive element under the raw sample while the dot lags elsewhere
C11_Witness ==
  /\ lastOp = "timeout" /\ prevOp = "advance"
  /\ lastScrollAt = TimeStep /\ now = TimeStep + ScrollDebounce
  /\ hovering /\ ~scrolling /\ pos # cmouse

\* C12: once the pointer has left the page, and until a new sample arrives, no
\* step of the Particle Field finds a particle within the repulsion radius of
\* the pointer position it holds, so no particle receives a repulsion force.
C12_LeaveDisablesRepulsion ==
  [][(pointerOut /\ steps' > steps) =>
       \A i \in DOMAIN particles :
          ~WithinRadius(FSub(particles[i].x, pmouse[1]),
                        FSub(particles[i].y, pmouse[2]))]_vars

\* C13: right after page startup with a canvas and without reduced motion, the
\* number of particles is min(30, floor(area / 30000)) on a touch device and
\* min(70, floor(area / 15000)) on a pointer-capable one, area being the
\* viewport's width times its height.
C13_AdaptiveCount ==
  (lastOp = "load" /\ canvasPresent /\ ~reducedMotion) =>
     Len(particles) = IF touch
                      THEN Min(TouchCountCap, (win[1] * win[2]) \div TouchAreaDivisor)
                      ELSE Min(CountCap, (win[1] * win[2]) \div AreaDivisor)

C15_ResizeKeepsParticles ==
  /\ [][(lastOp' = "resize") =>
           UNCHANGED <<canvas, ctx, plisten, particles, pmouse, raf, running,
                       pending, steps>>]_vars
  /\ [][loaded => (Len(particles') = Len(particles))]_vars
  /\ [][(steps' > steps) =>
           \A i \in DOMAIN particles :
              (FGt(particles[i].x, cw) \/ FGt(particles[i].y, ch)) =>
                 /\ particles'[i].x >= 0 /\ particles'[i].x <= cw'
                 /\ particles'[i].y >= 0 /\ particles'[i].y <= ch']_vars

\* a particle moving left from the right edge of a 150 x 100 canvas was left
\* beyond the right edge by a resize to 100 x 80, and the tick after the
\* resize has wrapped it to x = 0
C15_Witness ==
  /\ prevOp = "resize" /\ lastOp = "tick" /\ stepped
  /\ cw = 100 * Scale /\ ch = 80 * Scale
  /\ Len(particles) = 1
  /\ particles[1].x = 0 /\ particles[1].vx < -20

\* The distance from the lagged coordinate a to the target t is strictly
\* smaller after an update that left it at a1
StrictlyCloser(a, a1, t) == Abs(t - a1) < Abs(t - a)

\* a1 is not farther from t than a and not on the other side of it
NotFartherNotPast(a, a1, t) ==
  /\ Abs(t - a1) <= Abs(t - a)
  /\ (t - a1) * (t - a) >= 0

\* The increment of a lerp by pc percent from a distance d is below one unit
BelowResolution(d, pc) == Abs(d) * pc < 100

\* C16 as stated: with a constant target every update() strictly reduces the
\* distance of the dot and of the glow to the target in each coordinate, and
\* both eventually coincide with the target to within every representable
\* epsilon.
C16_StrictConvergence ==
  /\ [][(lastOp' = "frame" /\ el /\ hasMoved) =>
           \A k \in 1..2 :
              /\ StrictlyCloser(pos[k], pos'[k], cmouse[k])
              /\ glow => StrictlyCloser(glowPos[k], glowPos'[k], cmouse[k])]_vars
  /\ (el /\ hasMoved) ~> (pos = cmouse /\ (glow => glowPos = cmouse))

\* C16, amended: with a constant target an update() never increases the
\* distance of the dot or of the glow to the target in either coordinate and
\* never passes the target; it strictly reduces a distance whose 0.18 (dot)
\* or 0.08 (glow) part is at least one unit of the number representation;
\* and both eventually come that close to the target.
C16_Convergence ==
  /\ [][(lastOp' = "frame" /\ el /\ hasMoved) =>
           \A k \in 1..2 :
              /\ NotFartherNotPast(pos[k], pos'[k], cmouse[k])
              /\ BelowResolution(cmouse[k] - pos[k], LerpDotPerCent)
                   \/ StrictlyCloser(pos[k], pos'[k], cmouse[k])
              /\ glow => NotFartherNotPast(glowPos[k], glowPos'[k], cmouse[k])
              /\ glow => \/ BelowResolution(cmouse[k] - glowPos[k], LerpGlowPerCent)
                          \/ StrictlyCloser(glowPos[k], glowPos'[k], cmouse[k])]_vars
  /\ (el /\ hasMoved) ~>
       \A k \in 1..2 :
          /\ BelowResolution(cmouse[k] - pos[k], LerpDotPerCent)
          /\ glow => BelowResolution(cmouse[k] - glowPos[k], LerpGlowPerCent)

\* frames have run after a second sample: the dot is on its way to the target
\* and ahead of the glow
C16_Witness ==
  /\ lastOp = "frame" /\ el /\ glow /\ hasMoved
  /\ pos # cmouse /\ glowPos # cmouse /\ pos # glowPos
  /\ Abs(cmouse[1] - pos[1]) < Abs(cmouse[1] - glowPos[1])

\* No repulsion acts on particle p with the pointer at m: a touch device, or
\* the pointer at 120 px or more
NoRepulsion(p, m) ==
  touch \/ ~WithinRadius(FSub(p.x, m[1]), FSub(p.y, m[2]))

\* C17: a step with zero drift multiplies both velocity components of a
\* particle that receives no repulsion by 0.985, so neither component grows
\* in magnitude, and a component that is not zero strictly shrinks: step
\* after step the velocity descends to zero.
C17_DampingDecay ==
  [][(probe.kind = "step" /\ probe'.kind = "step" /\ probe'.n > probe.n) =>
       \A i \in DOMAIN probe.ps :
          NoRepulsion(probe.ps[i], probe.m) =>
             /\ probe'.ps[i].vx = Trunc(probe.ps[i].vx * 985, 1000)
             /\ probe'.ps[i].vy = Trunc(probe.ps[i].vy * 985, 1000)
             /\ Abs(probe'.ps[i].vx) <= Abs(probe.ps[i].vx)
             /\ Abs(probe'.ps[i].vy) <= Abs(probe.ps[i].vy)
             /\ probe.ps[i].vx # 0 => Abs(probe'.ps[i].vx) < Abs(probe.ps[i].vx)
             /\ probe.ps[i].vy # 0 => Abs(probe'.ps[i].vy) < Abs(probe.ps[i].vy)]_vars

\* the particle drawn at (150, 100) with the largest spawn speed has come to
\* rest right of and above where it started, the pointer off screen
C17_Witness ==
  /\ probe.kind = "step" /\ probe.n > 0
  /\ probe.m[1] = -FieldMouseStart * Scale
  /\ Len(probe.ps) = 1
  /\ probe.ps[1].vx = 0 /\ probe.ps[1].vy = 0
  /\ probe.ps[1].x > 150 * Scale /\ probe.ps[1].y < 100 * Scale

\* A thousand times the increment, in units, that a pointer at offset d along
\* one axis and at distance dist gives along that axis:
\* (d / dist) * ((120 - dist) / 120) * 0.12 px
IncrementTimes1000(d, dist) == Trunc(d * (RepulsionRadius * Scale - dist), dist)

\* v1 is 0.985 * (v + the increment for offset d at distance dist), to within
\* three units of the number representation
DampedIncrement(v, v1, d, dist) ==
  Abs(v1 * 1000 - Trunc((v * 1000 + IncrementTimes1000(d, dist)) * 985, 1000)) <= 3000

\* v1 does not point against the offset d, is zero where d is zero, and
\* points along d where the increment is at least two units
PointsAlong(v1, d, dist) ==
  /\ v1 * d >= 0
  /\ d = 0 => v1 = 0
  /\ Abs(IncrementTimes1000(d, dist)) >= 2000 => v1 * d > 0

\* C18: on a pointer-capable device a step with zero drift adds to the
\* velocity of a particle strictly within 120 px of the pointer, and not on
\* it, an increment along the vector from the pointer to the particle of
\* magnitude ((120 - dist) / 120) * 0.12 (before the damping of the same
\* step); from zero velocity the velocity after the step points away from
\* the pointer; and a particle at 120 px or more receives no increment.
C18_RepulsionDirection ==
  [][(~touch /\ probe.kind = "step" /\ probe'.kind = "step" /\ probe'.n > probe.n) =>
       \A i \in DOMAIN probe.ps :
          LET p    == probe.ps[i]
              p1   == probe'.ps[i]
              dx   == p.x - probe.m[1]
              dy   == p.y - probe.m[2]
              dist == Sqrt(dx * dx + dy * dy)
          IN IF WithinRadius(dx, dy)
             THEN (dx # 0 \/ dy # 0) =>
                    /\ DampedIncrement(p.vx, p1.vx, dx, dist)
                    /\ DampedIncrement(p.vy, p1.vy, dy, dist)
                    /\ (p.vx = 0 /\ p.vy = 0) =>
                          PointsAlong(p1.vx, dx, dist) /\ PointsAlong(p1.vy, dy, dist)
             ELSE /\ p1.vx = Trunc(p.vx * 985, 1000)
                  /\ p1.vy = Trunc(p.vy * 985, 1000)]_vars

\* pointer at (100, 100), particle drawn at rest at (110, 100): after one step
\* it moves right and not vertically
C18_Witness ==
  /\ ~touch /\ probe.kind = "step" /\ probe.n = 1
  /\ probe.m = <<100 * Scale, 100 * Scale>>
  /\ Len(probe.ps) = 1
  /\ probe.ps[1].vx > 0 /\ probe.ps[1].vy = 0
  /\ probe.ps[1].x > 110 * Scale /\ probe.ps[1].x < 111 * Scale
  /\ probe.ps[1].y = 100 * Scale

\* Every particle of ps has zero velocity and lies on [0, w) x [0, h)
AtRestInside(ps, w, h) ==
  \A i \in DOMAIN ps :
     /\ ps[i].vx = 0 /\ ps[i].vy = 0
     /\ 0 <= ps[i].x /\ ps[i].x < w
     /\ 0 <= ps[i].y /\ ps[i].y < h

\* C19: with the pointer at its initial off-screen position and zero drift, a
\* step leaves a list of particles at rest inside the canvas exactly as it
\* is: every velocity zero, every position unchanged and inside the canvas,
\* the particles at (0, 50) and (width - 1, 50) included.
C19_RestStaysAtRest ==
  [][(/\ probe.kind = "step" /\ probe'.kind = "step" /\ probe'.n > probe.n
      /\ probe.m = <<-FieldMouseStart * Scale, -FieldMouseStart * Scale>>
      /\ AtRestInside(probe.ps, probe.w, probe.h)) =>
       /\ probe'.ps = probe.ps
       /\ AtRestInside(probe'.ps, probe.w, probe.h)]_vars

\* the particles drawn at (0, 50) and (width - 1, 50) have been stepped with
\* the pointer off screen
C19_Witness ==
  /\ probe.kind = "step" /\ probe.n >= 1
  /\ probe.m = <<-FieldMouseStart * Scale, -FieldMouseStart * Scale>>
  /\ Len(probe.ps) = 2
  /\ probe.ps[1] = [x |-> 0, y |-> 50 * Scale, vx |-> 0, vy |-> 0]
  /\ probe.ps[2] = [x |-> probe.w - Scale, y |-> 50 * Scale, vx |-> 0, vy |-> 0]

\* The number of times the DOMContentLoaded listener made the call
Calls(call) == Cardinality({i \in DOMAIN startup : startup[i] = call})

\* The listener made call a, and made it before every call b it made
CalledBefore(a, b) ==
  /\ Calls(a) >= 1
  /\ \A i, j \in DOMAIN startup : (startup[i] = a /\ startup[j] = b) => i < j

\* C20 as stated: on a pointer-capable device the startup listener has
\* initialized the Pointer Follower and the Particle Field before it starts
\* the shared loop, which it starts exactly once.
C20_InitBeforeScheduler ==
  (loaded /\ ~touch) =>
     /\ CalledBefore("Cursor.init", "startSharedLoop")
     /\ CalledBefore("Particles.init", "startSharedLoop")
     /\ Calls("startSharedLoop") = 1

\* C20, amended: on a pointer-capable device the startup listener initializes
\* the Pointer Follower, then starts the shared loop, exactly once, and
\* initializes the Particle Field after that; all three happen within the
\* listener, so no tick of the shared loop runs before both are initialized,
\* and one tick is pending when the listener returns.
C20_StartupOrder ==
  /\ ~loaded => (startup = << >> /\ sharedStarts = 0 /\ frames = 0 /\ ~rafRunning)
  /\ (loaded /\ ~touch) =>
       /\ CalledBefore("Cursor.init", "startSharedLoop")
       /\ CalledBefore("startSharedLoop", "Particles.init")
       /\ Calls("Cursor.init") = 1 /\ Calls("Particles.init") = 1
       /\ Calls("startSharedLoop") = 1
       /\ sharedStarts = 1 /\ rafRunning /\ sharedPending = 1
       /\ el = elPresent /\ canvas = canvasPresent

\* both components are initialized, the particle loop runs, and a first tick
\* of the shared loop has run
C20_Witness ==
  /\ loaded /\ ~touch /\ el /\ canvas /\ ctx /\ running
  /\ Len(particles) = 2
  /\ rafRunning /\ frames = 1 /\ lastOp = "frame"

\* The lagged positions a tick of the shared loop leaves
FrameOutcome == UpdateTimes([pos |-> pos, glowPos |-> glowPos], sharedPending)

\* C21: a tick of the shared loop changes the lagged positions only and
\* leaves the whole Particle Field state as it was; a tick of the particle
\* loop changes Particle Field state only and leaves the Pointer Follower
\* (lagged positions, raw sample, hovering flag) and the scheduler as they
\* were.  Neither tick changes anything the other one reads (the particle
\* tick reads the Particle Field state and the touch flag), so for fixed
\* drift draws the state after a set of ticks is the same for every order.
C21_IndependentTicks ==
  /\ [][(lastOp' = "frame") =>
          /\ UNCHANGED fieldVars
          /\ UNCHANGED <<cmouse, hovering, hasMoved, el, glow>>
          /\ UNCHANGED touch]_vars
  /\ [][(lastOp' = "tick") =>
          /\ UNCHANGED <<cursorVars, sharedVars>>
          /\ FrameOutcome' = FrameOutcome]_vars

\* a shared tick that moved the dot is followed by a particle tick that stepped
C21_Witness ==
  /\ prevOp = "frame" /\ lastOp = "tick"
  /\ stepped /\ Len(particles) > 0
  /\ hasMoved /\ frameUpdates > 0 /\ pos # cmouse /\ pos[1] < cmouse[1]

\* One update() as a function of the lagged positions, the raw sample and
\* the presence flags alone
Follow(c) ==
  IF el /\ hasMoved
  THEN [pos     |-> <<lerp(c.pos[1], cmouse[1], LerpDotPerCent),
                      lerp(c.pos[2], cmouse[2], LerpDotPerCent)>>,
        glowPos |-> IF glow
                    THEN <<lerp(c.glowPos[1], cmouse[1], LerpGlowPerCent),
                           lerp(c.glowPos[2], cmouse[2], LerpGlowPerCent)>>
                    ELSE c.glowPos]
  ELSE c

RECURSIVE FollowTimes(_, _)
FollowTimes(c, k) == IF k = 0 THEN c ELSE FollowTimes(Follow(c), k - 1)

\* C22: the lagged positions do not depend on the hover state.  Pointer-over,
\* pointer-out, scroll and scroll-timeout events leave pos, glowPos, the raw
\* sample and hasMoved as they were; a pointer sample and an update() change
\* them by a function of these values alone, whatever hovering and scrolling
\* are.  Two runs with the same samples and update() calls therefore agree
\* on pos and glowPos after every step.
C22_HoverNonInterference ==
  /\ [][(lastOp' \in {"mouseover", "mouseout", "scroll", "timeout", "advance"}) =>
          UNCHANGED <<pos, glowPos, cmouse, hasMoved, el, glow>>]_vars
  /\ [][(lastOp' = "mousemove") =>
          /\ UNCHANGED <<el, glow>>
          /\ hasMoved' = (hasMoved \/ el)
          /\ <<pos', glowPos'>> = IF el /\ ~hasMoved THEN <<cmouse', cmouse'>>
                                                  ELSE <<pos, glowPos>>]_vars
  /\ [][(lastOp' = "frame") =>
          /\ UNCHANGED <<cmouse, hasMoved, el, glow>>
          /\ [pos |-> pos', glowPos |-> glowPos'] =
               FollowTimes([pos |-> pos, glowPos |-> glowPos], sharedPending)]_vars

\* an update() has moved the dot toward the sample while hovering was set
C22_Witness ==
  /\ lastOp = "frame" /\ frameUpdates > 0
  /\ el /\ hasMoved /\ hovering
  /\ pos # cmouse /\ pos[1] > 0

\* C23: when reduced motion is requested the Particle Field stays inert: no
\* particle is spawned, running is never true, no step is taken and no frame
\* callback is requested, whatever resize, visibility and pointer events arrive.
C23_ReducedMotionInert ==
  reducedMotion =>
    /\ Len(particles) = 0
    /\ ~running /\ ~stepped /\ steps = 0
    /\ pending = {} /\ raf = 0
    /\ ~plisten /\ ~ctx

\* with reduced motion and a canvas in the page, the page has been hidden,
\* resized and shown again after startup
C23_Witness ==
  /\ reducedMotion /\ ~touch /\ loaded /\ canvas
  /\ prevOp = "resize" /\ lastOp = "visible"

\* C25: once the Particle Field has been initialized past its checks (canvas
\* and context available, no reduced motion), the loop is running exactly
\* while the page is visible, a page already hidden at initialization included.
C25_RunningIffVisible ==
  (loaded /\ plisten /\ ctx) => (running <=> ~hidden)

\* C24: on a touch device the Pointer Follower is never initialized and the
\* Shared Frame Scheduler is never started: el and glow stay unset, the
\* running flag of the scheduler stays false and no tick is ever pending or
\* run, and no pointer, scroll or frame event changes the lagged positions,
\* the raw sample, hasMoved, hovering or the scroll suppression.
C24_TouchInert ==
  touch =>
    /\ ~el /\ ~glow
    /\ ~rafRunning /\ sharedStarts = 0 /\ sharedPending = 0
    /\ frames = 0 /\ frameUpdates = 0
    /\ pos = <<-CursorStart * Scale, -CursorStart * Scale>>
    /\ glowPos = <<-CursorStart * Scale, -CursorStart * Scale>>
    /\ cmouse = <<-CursorStart * Scale, -CursorStart * Scale>>
    /\ ~hasMoved /\ ~hovering /\ ~scrolling /\ timers = {}

\* on a touch device whose page has a .cursor element, a pointer sample and
\* then a scroll event have arrived after startup
C24_Witness ==
  /\ touch /\ loaded /\ elPresent /\ glowPresent
  /\ prevOp = "mousemove" /\ lastOp = "scroll"

\* C26: within one tick every particle's position is updated before any
\* connection is evaluated: the lines a tick draws are those of the positions
\* the same tick leaves.  A tick is one step of the program: it advances every
\* particle once and nothing else (pointer, canvas size, another tick) acts
\* between its per-particle loop and its connection loop.
C26_ConnectionsAfterUpdate ==
  [][(lastOp' = "probeStep") =>
       /\ probe'.links = Connections(probe'.ps)
       /\ probe'.n = probe.n + 1
       /\ Len(probe'.ps) = Len(probe.ps)
       /\ <<probe'.m, probe'.w, probe'.h>> = <<probe.m, probe.w, probe.h>>]_vars

\* the tick that carried a pair of particles from within the connection
\* distance to beyond it has drawn no line
C26_Witness ==
  /\ probe.kind = "step" /\ probe.n > 0 /\ Len(probe.ps) = 2
  /\ probe.links = {}
  /\ probe.ps[2].y = probe.ps[1].y
  /\ probe.ps[2].x - probe.ps[1].x >= ConnectionDistance * Scale
  /\ probe.ps[2].x - probe.ps[1].x < ConnectionDistance * Scale + 2 * SpawnSpeed

\* C27: the Particle Field performs at most one simulation step per display
\* frame.  In the claim's own case: once a frame tick, or the start() of the
\* initialization, has stepped the particles (the page being visible), hiding
\* the page and showing it again before the next frame tick does not step
\* them a second time.
C27_OneStepPerFrame ==
  [][(prevOp \in {"tick", "load"} /\ lastOp = "hidden" /\ lastOp' = "visible") =>
       steps' = steps]_vars

\* C27, as the code has it: an operation steps the particles at most once.  A
\* frame tick of the running loop steps them once.  Any other step is made by
\* a start() that found the loop stopped (at initialization, on a visible
\* transition, or called directly), at once and within the frame in progress;
\* a start() that finds the loop running steps nothing.  Between two frame
\* ticks the particles are thus stepped once more for each start() that
\* follows a stop().
C27_StepsPerFrame ==
  /\ [][steps' \in {steps, steps + 1}]_vars
  /\ [][(steps' > steps) =>
          \/ lastOp' = "tick" /\ running
          \/ /\ lastOp' \in {"load", "visible", "start"}
             /\ ~running /\ running']_vars
  /\ [][(lastOp' \in {"visible", "start"} /\ running) => steps' = steps]_vars
  /\ [][(lastOp' \in {"load", "visible", "start"} /\ ~running /\ running' /\ ctx') =>
          steps' = steps + 1]_vars
  /\ [][(lastOp' = "tick" /\ running /\ ctx) => steps' = steps + 1]_vars

\* the page has been hidden and shown again after initialization and before
\* any frame tick: the particles have been stepped twice, by two start() calls
C27_Witness ==
  /\ lastOp = "visible" /\ prevOp = "hidden"
  /\ running /\ stepped /\ steps = 2 /\ Len(particles) > 0

\* C28: the header carries 'header-hidden' only while the scroll position is
\* above scrollThreshold.
C28_HiddenOnlyAboveThreshold ==
  headerHidden => scrollY > scrollThreshold

\* C28, as the code has it: the header carries 'header-hidden' only while
\* Header.lastScroll is above scrollThreshold and the scroll position is
\* less than delta below lastScroll, hence above scrollThreshold - delta; a
\* scroll event whose position is at or below the threshold and at least delta
\* away from lastScroll removes the class.
C28_HiddenNearThreshold ==
  /\ [](headerHidden =>
          /\ lastScroll > scrollThreshold
          /\ scrollY > lastScroll - delta
          /\ scrollY > scrollThreshold - delta)
  /\ [][(lastOp' = "scroll" /\ headerEl /\ scrollY' <= scrollThreshold
           /\ Abs(scrollY' - lastScroll) >= delta) => ~headerHidden']_vars

\* the header is still hidden after a move of less than delta back to the
\* threshold
C28_Witness ==
  /\ lastOp = "scroll" /\ headerEl /\ headerHidden
  /\ scrollY = scrollThreshold /\ lastScroll = scrollThreshold + 4

\* C29: from the state in which every indicator is off, after any sequence of
\* clicks on the toggle, on links of the overlay, outside the menu and on
\* anchor links that SmoothScroll handles, and of Escape presses, the toggle
\* carries 'active' iff the overlay carries 'active' iff the body carries
\* 'menu-open'.
C29_MenuIndicatorsAgree ==
  /\ toggleActive <=> overlayActive
  /\ overlayActive <=> menuOpen

\* with the menu open, a click on an anchor link outside the menu has closed it
C29_Witness ==
  /\ lastOp = "anchorClick" /\ closedBy = "page" /\ menuListening
  /\ ~toggleActive /\ ~overlayActive /\ ~menuOpen

\* C30: at most one frame callback of Parallax.update is pending, ticking is
\* true exactly while one is pending, and a scroll event that arrives while
\* none is pending (at the start, or after an update has run) requests one.
C30_ParallaxThrottle ==
  /\ [](parallaxPending <= 1 /\ (ticking <=> parallaxPending = 1))
  /\ [][(lastOp' = "scroll" /\ parallaxListening /\ parallaxPending = 0) =>
          (ticking' /\ parallaxPending' = 1)]_vars
  /\ [][(lastOp' = "scroll" /\ parallaxPending = 1) =>
          UNCHANGED <<ticking, parallaxPending>>]_vars

\* a scroll event after an update has run has requested the next update
C30_Witness ==
  /\ lastOp = "scroll" /\ prevOp = "parallaxFrame"
  /\ parallaxListening /\ ticking /\ parallaxPending = 1

\* The positions a counter can have on a page
CounterIds == UNION {DOMAIN p : p \in CounterPages}

\* The counter c has been animated and no frame callback of it is pending
CounterDone(c) == c \in DOMAIN animations /\ animations[c] = 1 /\ cpending[c] = 0

\* The data-target value of the counter c rounded to data-decimals places
RoundedTarget(c) == Shown(counterEls[c].target * EaseScale, counterEls[c].decimals)

\* The text a finished counter shows
FinalText(c) == IF reducedMotion THEN ReducedText(counterEls[c]) ELSE RoundedTarget(c)

CounterSafe ==
  \A c \in DOMAIN animations :
    /\ animations[c] <= 1 /\ cpending[c] \in {0, 1}
    /\ (c \in observed) => animations[c] = 0
    /\ (c \notin observed /\ observer) => animations[c] = 1
    /\ (animations[c] = 0) => (cpending[c] = 0 /\ ctext[c] = -1)
    /\ CounterDone(c) => ctext[c] = FinalText(c)

\* The frame callback chain of a counter ends only when duration has elapsed
\* since its start, and an ended chain is never taken up again
CounterChainEnds ==
  \A c \in DOMAIN animations :
    /\ (cpending[c] = 1 /\ cpending'[c] = 0) => now - cstart[c] >= duration
    /\ CounterDone(c) => (CounterDone(c)' /\ ctext'[c] = ctext[c])

RevealIdempotent ==
  /\ (reveals >= 1 /\ reveals' = reveals + 1) => (pageLoaded' = pageLoaded /\ ready' = ready)
  /\ pageLoaded => pageLoaded'
  /\ ready => ready'

\* C32: once PageTransition.init() has run on a visible page, the body
\* eventually carries 'page-loaded', whether or not the font promise resolves
\* or the load event fires, because the 1200 ms timer calls reveal(); and after
\* any number of reveal frames the body carries 'page-loaded' and 'ready', a
\* second frame changing nothing.
C32_RevealEventually ==
  /\ loaded ~> pageLoaded
  /\ [](reveals >= 1 => (pageLoaded /\ ready))
  /\ [][RevealIdempotent]_vars

\* The fonts were ready and the safety timer expired, and the second of the
\* two frame callbacks of reveal() has just run
C32_Witness ==
  /\ loaded /\ revealVia = "fonts" /\ revealFired /\ revealTimer = -1
  /\ now >= RevealDelay
  /\ lastOp = "revealFrame" /\ reveals = 2 /\ revealPending = 0
  /\ pageLoaded /\ ready

=============================================================================
